---- MODULE Spec2Model ----
(***************************************************************************)
(* Model of the mdbook-epub asset resolution and chapter content           *)
(* transformation pipeline.                                                *)
(*                                                                         *)
(*   Spec          FootnoteFilter (src/filters/footnote.rs): the event     *)
(*                 stream of one chapter is pushed through apply, then     *)
(*                 the buffered definitions are retained, sorted and       *)
(*                 re-emitted.                                             *)
(***************************************************************************)
EXTENDS Integers, Sequences, FiniteSets, TLC

VARIABLES
    \* ---- FootnoteFilter (src/filters/footnote.rs:6-11) ----
    is_enabled,        \* FootnoteFilter.is_enabled
    footnotes,         \* FootnoteFilter.footnotes: closed definitions, each a sequence of events
    in_footnote,       \* FootnoteFilter.in_footnote: stack of open definition buffers
    footnote_numbers,  \* FootnoteFilter.footnote_numbers: name -> (number, usage count)
    input,             \* the events handed to apply so far (the parser's stream)
    returned,          \* the Option<Event> returned by the last apply
    body,              \* the events apply returned as Some, in order (the chapter body)
    emitted,           \* the events get_events produced at the end of the chapter
    pc,                \* "parsing" while events arrive, "done" after the footnote block is emitted
    \* ---- remote content cache (src/resources/retrieve.rs, src/filters/asset_link.rs) ----
    assets,            \* the AssetTable: original link -> Asset
    fs,                \* the file system: path -> node (directory, file with its size, symbolic link)
    retrieve_calls,    \* how many times retrieve was called
    download_calls,    \* how many times download was called
    download_result,   \* the Result of the last download
    download_asset,    \* the Asset record the last download was called on
    handler_pc,        \* "ready", or "panicked" after retrieve hit unreachable!()
    \* ---- asset discovery (src/resources/resource.rs, src/resources/asset.rs) ----
    find_pc,           \* "running" inside find, "done" after Ok(assets), "failed" after Err
    current_chapter,   \* the chapter path of the section find is in, NoPath between sections
    link_cursor,       \* the position in the sorted link list of the last link of this chapter
    sections_seen,     \* how many book items find has visited
    links_seen,        \* how many links find has handled
    local_link,        \* the link of the last Asset::from_local call
    local_chapter,     \* the chapter path of the last Asset::from_local call
    local_result,      \* the Result of the last Asset::from_local call
    handled,           \* the (chapter path, link) pairs find has handled, in order
    \* ---- Generator (src/generator.rs) ----
    book,              \* ctx.book.sections: the top-level items of the book
    gen_pc,            \* the phase generate is in, "done" after Ok(()), "failed" after Err
    phases,            \* the phases generate has run, in order
    todo,              \* the add_chapter calls still to make, the next one first
    builder_content,   \* the contents given to builder.add_content, in order
    skipped,           \* the names of the chapters add_chapter has skipped
    \* ---- compute_path_prefix (src/filters/asset_link.rs) ----
    prefix_pc,         \* "called" with the arguments below, "returned" with the result
    prefix_depth,      \* the argument depth
    prefix_path,       \* the argument path
    prefix_asset,      \* whether the argument asset is Some
    prefix_result,     \* the String returned
    \* ---- AssetRemoteLinkFilter (src/filters/asset_link.rs) ----
    filter_depth,      \* AssetRemoteLinkFilter.depth
    html_dom,          \* the nodes Dom::parse gives for the last Html event
    html_returned,     \* the text of the Html event returned for it
    html_events,       \* how many events the filter has handled
    filter_event,      \* the last event given to apply: its kind and its dest_url
    filter_returned,   \* the event apply returned for it: its kind and its dest_url
    \* ---- QuoteConverterFilter (src/filters/quote_converter.rs) ----
    enabled,           \* QuoteConverterFilter.enabled
    convert_text,      \* QuoteConverterFilter.convert_text
    quote_event,       \* the last event given to apply
    quote_returned,    \* the event apply returned for it
    after_code_block,  \* whether an End(CodeBlock) was given to apply before
    code_block_open,   \* whether the parser is inside a code block after the last event
    received_in_code,  \* whether the last event was received inside a code block
    \* ---- utils::normalize_path (src/utils.rs) ----
    norm_pc,           \* "called", "returned", "again" after the result was normalized again
    norm_path,         \* the argument path
    norm_result,       \* the PathBuf returned
    norm_again,        \* the PathBuf returned for the result
    \* ---- Asset::compute_asset_path_by_src_and_link (src/resources/asset.rs) ----
    cap_pc,            \* "called" inside a call, "returned" when the outermost call returned
    cap_link0,         \* the argument link of the outermost call
    cap_dir0,          \* the argument chapter_dir of the outermost call
    cap_link,          \* the argument link of the innermost call
    cap_root,          \* chapter_dir of the innermost call; the PathBuf returned, at the end
    cap_calls,         \* how many recursive calls were made
    \* ---- mdbook_epub::generate (src/lib.rs) ----
    lib_pc,            \* the statement generate is at, "Ok" or "Err" after it returned
    destination_exists, \* whether ctx.destination exists
    outfile            \* the output file: "absent", "stale" from an earlier run, "empty"
                       \* after File::create, "partial" or "epub" after the builder wrote

fvars == <<is_enabled, footnotes, in_footnote, footnote_numbers, input, returned, body, emitted, pc>>

lvars == <<find_pc, current_chapter, link_cursor, sections_seen, links_seen,
           local_link, local_chapter, local_result, handled>>

dvars == <<assets, fs, retrieve_calls, download_calls, download_result, download_asset,
           handler_pc>>

gvars == <<book, gen_pc, phases, todo, builder_content, skipped>>

pvars == <<prefix_pc, prefix_depth, prefix_path, prefix_asset, prefix_result>>

hvars == <<filter_depth, html_dom, html_returned, html_events>>

qvars == <<enabled, convert_text, quote_event, quote_returned, after_code_block, code_block_open,
           received_in_code>>

nvars == <<norm_pc, norm_path, norm_result, norm_again>>

cvars == <<cap_pc, cap_link0, cap_dir0, cap_link, cap_root, cap_calls>>

ovars == <<lib_pc, destination_exists, outfile>>

zvars == <<nvars, cvars, ovars>>

ivars == <<filter_event, filter_returned>>

xvars == <<pvars, hvars, ivars, qvars, zvars>>

vars == <<fvars, dvars, lvars, gvars, xvars>>

-----------------------------------------------------------------------------
(* Bounds *)

\* longest event stream of one chapter
MaxEvents == 6

\* footnote names that occur in a chapter
Names == {"a", "b"}

\* most download calls on one asset
MaxDownloads == 3

\* length in bytes of the remote resource's body
BodyLen == 2

\* the number of book items find visits
MaxSections == 2

\* the number of links find handles
MaxLinks == 3

\* the number of top-level items of the book generate renders
MaxItems == 2

\* the length, in symbols, of the paths given to compute_path_prefix
MaxPathLen == 4

\* the largest depth given to compute_path_prefix
MaxDepth == 2

\* the number of top-level nodes of an HTML fragment
MaxNodes == 2

\* the number of Html events the asset link filter handles
MaxHtmlEvents == 2

\* the length, in characters, of the text of an event
MaxTextLen == 3

\* the length, in symbols, of the links given to compute_asset_path_by_src_and_link
MaxClimbLen == 7

-----------------------------------------------------------------------------
(* pulldown_cmark events.  Every event is a record of the same shape; the   *)
(* fields an event kind does not use hold "" / 0 / <<>>.                    *)

Ev(k, name, nr, n, links, close) ==
    [k |-> k, name |-> name, nr |-> nr, n |-> n, links |-> links, close |-> close]

StartFootnoteDefinition(name) == Ev("StartFootnoteDefinition", name, 0, 0, <<>>, "")
EndFootnoteDefinition == Ev("EndFootnoteDefinition", "", 0, 0, <<>>, "")
FootnoteReference(name) == Ev("FootnoteReference", name, 0, 0, <<>>, "")
StartParagraph == Ev("StartParagraph", "", 0, 0, <<>>, "")
EndParagraph == Ev("EndParagraph", "", 0, 0, <<>>, "")

\* Option::None
None == Ev("None", "", 0, 0, <<>>, "")

\* the events the parser hands to the filter
ParserEvents ==
    {StartFootnoteDefinition(x) : x \in Names} \cup {FootnoteReference(x) : x \in Names}
        \cup {EndFootnoteDefinition, StartParagraph, EndParagraph}

\* <sup class="footnote-reference" id="fr-{name}-{nr}"><a href="#fn-{name}">[{n}]</a></sup>
HtmlFootnoteReference(name, nr, n) == Ev("HtmlFootnoteReference", name, nr, n, <<>>, "")

\* <p>
HtmlP == Ev("HtmlP", "", 0, 0, <<>>, "")

\* <p><span class="footnote-definition-label">[{fn_number}]</span>
HtmlLabel(fn_number) == Ev("HtmlLabel", "", 0, fn_number, <<>>, "")

\* <div class="footnote-definition" id="fn-{name}" epub:type="footnote">
HtmlDefinitionOpen(name) == Ev("HtmlDefinitionOpen", name, 0, 0, <<>>, "")

\* </div>
HtmlDefinitionClose == Ev("HtmlDefinitionClose", "", 0, 0, <<>>, "div")

\* one back-reference link  <a href="#fr-{name}-{usage}">..</a> : label 0 is the
\* bare return glyph, label u the glyph followed by the number u
BackrefLink(name, usage) ==
    [name |-> name, usage |-> usage, label |-> IF usage = 1 THEN 0 ELSE usage]

\* the links of all recorded uses followed by </div> or </p>
HtmlBackrefs(name, links, close) == Ev("HtmlBackrefs", name, 0, 0, links, close)

-----------------------------------------------------------------------------
(* FootnoteFilter *)

\* footnote_numbers.get(name).unwrap_or(&(0, 0))
get_or_zero(numbers, name) ==
    IF name \in DOMAIN numbers THEN numbers[name] ELSE [n |-> 0, nr |-> 0]

\* mutant: the number of a new name is the count of names, not the count plus one
next_number_mut(numbers) == Cardinality(DOMAIN numbers)

\* let n = self.footnote_numbers.len() + 1;
next_number(numbers) == Cardinality(DOMAIN numbers) + 1

\* footnote_numbers.entry(name).or_insert((n, 0)); *nr += 1
count_reference(numbers, name) ==
    LET cur == IF name \in DOMAIN numbers
               THEN numbers[name]
               ELSE [n |-> next_number(numbers), nr |-> 0]
    IN  [x \in (DOMAIN numbers) \cup {name} |->
            IF x = name THEN [n |-> cur.n, nr |-> cur.nr + 1] ELSE numbers[x]]

\* mutant: the event goes to the outermost open buffer
replace_last_in_footnote_mut(stack, event) ==
    IF Len(stack) = 0 THEN stack
    ELSE [stack EXCEPT ![1] = Append(@, event)]

\* replace_last_in_footnote: push the event on the innermost open buffer
replace_last_in_footnote(stack, event) ==
    IF Len(stack) = 0 THEN stack
    ELSE [stack EXCEPT ![Len(stack)] = Append(@, event)]

\* FootnoteFilter::apply
apply(event) ==
    /\ pc = "parsing"
    /\ Len(input) < MaxEvents
    /\ input' = Append(input, event)
    /\ UNCHANGED <<is_enabled, emitted, pc>>
    /\ UNCHANGED <<dvars, lvars, gvars, xvars>>
    /\ IF ~is_enabled
       THEN /\ returned' = event
            /\ UNCHANGED <<footnotes, in_footnote, footnote_numbers>>
       ELSE IF event.k = "StartFootnoteDefinition"
       THEN /\ in_footnote' = Append(in_footnote, <<event>>)
            /\ returned' = None
            /\ UNCHANGED <<footnotes, footnote_numbers>>
       ELSE IF event.k = "EndFootnoteDefinition"
       THEN \* move_from_in_to_footnotes
            /\ IF Len(in_footnote) = 0
               THEN UNCHANGED <<in_footnote, footnotes>>
               ELSE /\ in_footnote' = SubSeq(in_footnote, 1, Len(in_footnote) - 1)
                    /\ footnotes' = Append(footnotes,
                                           Append(in_footnote[Len(in_footnote)], event))
            /\ returned' = None
            /\ UNCHANGED footnote_numbers
       ELSE IF event.k = "FootnoteReference"
       THEN LET numbers == count_reference(footnote_numbers, event.name)
                html == HtmlFootnoteReference(event.name, numbers[event.name].nr,
                                              numbers[event.name].n)
            IN  /\ footnote_numbers' = numbers
                /\ IF Len(in_footnote) = 0
                   THEN returned' = html /\ UNCHANGED in_footnote
                   ELSE /\ in_footnote' = replace_last_in_footnote(in_footnote, html)
                        /\ returned' = None
                /\ UNCHANGED footnotes
       ELSE IF Len(in_footnote) # 0
       THEN /\ in_footnote' = replace_last_in_footnote(in_footnote, event)
            /\ returned' = None
            /\ UNCHANGED <<footnotes, footnote_numbers>>
       ELSE /\ returned' = event
            /\ UNCHANGED <<footnotes, in_footnote, footnote_numbers>>
    /\ body' = IF returned' = None THEN body ELSE Append(body, returned')

\* the name of the definition a buffer belongs to: f.first()
first_name(f) == f[1].name

\* mutant: a definition referenced only once is dropped too
is_used_mut(numbers, f) ==
    /\ Len(f) > 0
    /\ f[1].k = "StartFootnoteDefinition"
    /\ get_or_zero(numbers, f[1].name).nr > 1

\* FootnoteFilter::retain's predicate
is_used(numbers, f) ==
    /\ Len(f) > 0
    /\ f[1].k = "StartFootnoteDefinition"
    /\ get_or_zero(numbers, first_name(f)).nr # 0

\* FootnoteFilter::retain
retain(fns, numbers) == SelectSeq(fns, LAMBDA f : is_used(numbers, f))

\* the sort key of sort_by_cached_key
sort_key(numbers, f) == get_or_zero(numbers, first_name(f)).n

\* insert f after every element whose key is not greater (stable)
RECURSIVE insert_sorted(_, _, _)
insert_sorted(sorted, f, numbers) ==
    IF Len(sorted) = 0 THEN <<f>>
    ELSE IF sort_key(numbers, sorted[Len(sorted)]) <= sort_key(numbers, f)
         THEN Append(sorted, f)
         ELSE Append(insert_sorted(SubSeq(sorted, 1, Len(sorted) - 1), f, numbers),
                     sorted[Len(sorted)])

\* mutant: the definitions stay in the order they were closed
sort_by_cached_key_mut(fns, numbers) == fns

\* FootnoteFilter::sort_by_cached_key (a stable sort)
RECURSIVE sort_by_cached_key(_, _)
sort_by_cached_key(fns, numbers) ==
    IF Len(fns) = 0 THEN <<>>
    ELSE insert_sorted(sort_by_cached_key(SubSeq(fns, 1, Len(fns) - 1), numbers),
                       fns[Len(fns)], numbers)

\* mutant: the loop stops one use early
backref_links_mut(name, usage_count) ==
    [usage \in 1..(usage_count - 1) |-> BackrefLink(name, usage)]

\* for usage in 1..=usage_count
backref_links(name, usage_count) ==
    [usage \in 1..usage_count |-> BackrefLink(name, usage)]

\* the closure get_events maps over the events of one definition, from the
\* i-th event (1-based) on, with its captured state
RECURSIVE map_definition(_, _, _, _, _, _)
map_definition(fl, i, name, has_written_backrefs, written, numbers) ==
    IF i > Len(fl) THEN <<>>
    ELSE LET e == fl[i] IN
         IF e.k = "StartParagraph"
         THEN LET fn_number == numbers[name].n IN
              IF fn_number \in written
              THEN <<HtmlP>> \o
                   map_definition(fl, i + 1, name, has_written_backrefs, written, numbers)
              ELSE <<HtmlLabel(fn_number)>> \o
                   map_definition(fl, i + 1, name, has_written_backrefs,
                                  written \cup {fn_number}, numbers)
         ELSE IF e.k = "StartFootnoteDefinition"
         THEN <<HtmlDefinitionOpen(e.name)>> \o
              map_definition(fl, i + 1, e.name, FALSE, written, numbers)
         ELSE IF /\ e.k \in {"EndFootnoteDefinition", "EndParagraph"}
                 /\ ~has_written_backrefs
                 /\ i - 1 >= Len(fl) - 2
         THEN LET usage_count == numbers[name].nr
                  close == IF e.k = "EndFootnoteDefinition" THEN "div" ELSE "p"
              IN  <<HtmlBackrefs(name, backref_links(name, usage_count), close)>> \o
                  map_definition(fl, i + 1, name, TRUE, written, numbers)
         ELSE IF e.k = "EndFootnoteDefinition"
         THEN <<HtmlDefinitionClose>> \o
              map_definition(fl, i + 1, name, has_written_backrefs, written, numbers)
         ELSE <<e>> \o
              map_definition(fl, i + 1, name, has_written_backrefs, written, numbers)

\* FootnoteFilter::get_events: flat_map over the definitions
RECURSIVE get_events(_, _)
get_events(fns, numbers) ==
    IF Len(fns) = 0 THEN <<>>
    ELSE map_definition(fns[1], 1, "", FALSE, {}, numbers)
             \o get_events(SubSeq(fns, 2, Len(fns)), numbers)

\* end of the chapter: retain, sort_by_cached_key, get_events
finish ==
    /\ pc = "parsing"
    /\ footnotes' = sort_by_cached_key(retain(footnotes, footnote_numbers), footnote_numbers)
    /\ emitted' = get_events(footnotes', footnote_numbers)
    /\ pc' = "done"
    /\ UNCHANGED <<is_enabled, in_footnote, footnote_numbers, input, returned, body>>
    /\ UNCHANGED <<dvars, lvars, gvars, xvars>>

-----------------------------------------------------------------------------
(* Paths.  A path or link string is a sequence of symbols: "/" and "." are   *)
(* those characters, every other symbol is a run of characters that holds   *)
(* neither.                                                                 *)

Sep == "/"
Dot == "."

\* str::starts_with
starts_with(s, prefix) ==
    Len(s) >= Len(prefix) /\ SubSeq(s, 1, Len(prefix)) = prefix

\* the pieces of s between its separators
RECURSIVE split(_)
split(s) ==
    IF \A i \in 1..Len(s) : s[i] # Sep THEN <<s>>
    ELSE LET i == CHOOSE j \in 1..Len(s) :
                      s[j] = Sep /\ \A k \in 1..(j - 1) : s[k] # Sep
         IN  <<SubSeq(s, 1, i - 1)>> \o split(SubSeq(s, i + 1, Len(s)))

\* Path::components: RootDir for a leading separator, CurDir for a leading
\* ".", ParentDir for "..", Normal for any other non-empty piece
components(s) ==
    LET pieces == split(s)
        has_root == Len(s) > 0 /\ s[1] = Sep
        kind(i) == IF pieces[i] = <<>> THEN "skip"
                   ELSE IF pieces[i] = <<Dot>>
                        THEN (IF i = 1 THEN "CurDir" ELSE "skip")
                   ELSE IF pieces[i] = <<Dot, Dot>> THEN "ParentDir"
                   ELSE "Normal"
        all == [i \in 1..Len(pieces) |-> [kind |-> kind(i), name |-> pieces[i]]]
    IN  (IF has_root THEN <<[kind |-> "RootDir", name |-> <<>>]>> ELSE <<>>)
            \o SelectSeq(all, LAMBDA c : c.kind # "skip")

\* PathBuf: whether it starts at the root, and its normal components
PathBuf(abs, comps) == [abs |-> abs, comps |-> comps]

\* PathBuf::new()
NoPath == PathBuf(FALSE, <<>>)

\* PathBuf::pop: drops the last component, does nothing when there is none
pop(path) ==
    IF Len(path.comps) = 0 THEN path
    ELSE [path EXCEPT !.comps = SubSeq(@, 1, Len(@) - 1)]

\* Path::join: an absolute argument replaces the path
join(path, other) ==
    IF other.abs THEN other ELSE PathBuf(path.abs, path.comps \o other.comps)

\* Path::parent
parent(path) == pop(path)

\* the loop of normalize_path over the components from the i-th on
RECURSIVE normalize_from(_, _, _)
normalize_from(ret, cs, i) ==
    IF i > Len(cs) THEN ret
    ELSE IF cs[i].kind = "RootDir" THEN normalize_from(PathBuf(TRUE, <<>>), cs, i + 1)
    ELSE IF cs[i].kind = "CurDir" THEN normalize_from(ret, cs, i + 1)
    ELSE IF cs[i].kind = "ParentDir" THEN normalize_from(pop(ret), cs, i + 1)
    ELSE normalize_from([ret EXCEPT !.comps = Append(@, cs[i].name)], cs, i + 1)

\* mutant: the loop starts after the first component
normalize_path_mut(s) == normalize_from(NoPath, components(s), 2)

\* utils::normalize_path of the path written s
normalize_path(s) == normalize_from(NoPath, components(s), 1)

\* mutant: every path is taken to lie under the base
strip_prefix_mut(path, base) == [ok |-> TRUE, path |-> PathBuf(FALSE, path.comps)]

\* Path::strip_prefix
strip_prefix(path, base) ==
    IF /\ path.abs = base.abs
       /\ Len(path.comps) >= Len(base.comps)
       /\ SubSeq(path.comps, 1, Len(base.comps)) = base.comps
    THEN [ok |-> TRUE,
          path |-> PathBuf(FALSE, SubSeq(path.comps, Len(base.comps) + 1, Len(path.comps)))]
    ELSE [ok |-> FALSE, path |-> NoPath]

\* Path::ends_with(name) for a single component
ends_with(path, name) ==
    Len(path.comps) > 0 /\ path.comps[Len(path.comps)] = name

\* Path::extension().is_none(): the last component has no "." after its start
extension_is_none(path) ==
    \/ Len(path.comps) = 0
    \/ LET name == path.comps[Len(path.comps)]
       IN  \A i \in 2..Len(name) : name[i] # Dot

\* the extension of the last component, "" when it has none
extension(path) ==
    IF extension_is_none(path) THEN ""
    ELSE LET name == path.comps[Len(path.comps)] IN name[Len(name)]

\* format!("{}.{}", path, extension)
append_extension(path, ext) ==
    [path EXCEPT !.comps[Len(path.comps)] = @ \o <<Dot, ext>>]

\* mime_guess::from_path(..).first_or_octet_stream()
mime_guess(path) ==
    IF extension(path) = "svg" THEN "image/svg+xml"
    ELSE IF extension(path) = "jpg" THEN "image/jpeg"
    ELSE IF extension(path) = "png" THEN "image/png"
    ELSE "application/octet-stream"

-----------------------------------------------------------------------------
(* The file system: a function from the component sequence of an absolute   *)
(* path to the node there; the root is a directory.                         *)

Node(kind, target, size) == [kind |-> kind, target |-> target, size |-> size]

node_kind(files, comps) ==
    IF comps = <<>> THEN "dir"
    ELSE IF comps \in DOMAIN files THEN files[comps].kind
    ELSE "absent"

\* walk rest from the canonical directory cur, following symbolic links
RECURSIVE resolve(_, _, _)
resolve(files, cur, rest) ==
    IF Len(rest) = 0 THEN [ok |-> TRUE, path |-> PathBuf(TRUE, cur)]
    ELSE IF node_kind(files, cur) # "dir" THEN [ok |-> FALSE, path |-> NoPath]
    ELSE LET nxt == Append(cur, rest[1])
             more == SubSeq(rest, 2, Len(rest))
         IN  IF node_kind(files, nxt) = "absent" THEN [ok |-> FALSE, path |-> NoPath]
             ELSE IF node_kind(files, nxt) = "symlink"
                  THEN resolve(files, <<>>, files[nxt].target \o more)
             ELSE resolve(files, nxt, more)

\* Path::canonicalize
canonicalize(files, path) == resolve(files, <<>>, path.comps)

\* Path::exists (follows symbolic links)
exists(files, path) == canonicalize(files, path).ok

\* Path::is_file (follows symbolic links)
is_file(files, path) ==
    LET c == canonicalize(files, path)
    IN  c.ok /\ node_kind(files, c.path.comps) = "file"

\* Path::is_symlink (looks at the path itself)
is_symlink(files, path) == node_kind(files, path.comps) = "symlink"

\* fs::create_dir_all
create_dir_all(files, dir) ==
    LET missing == {SubSeq(dir.comps, 1, n) : n \in 1..Len(dir.comps)} \ DOMAIN files
    IN  [x \in (DOMAIN files) \cup missing |->
            IF x \in missing THEN Node("dir", <<>>, 0) ELSE files[x]]

\* OpenOptions::new().create(true).truncate(true).write(true).open(path), then
\* io::copy of n bytes
write_file(files, path, n) ==
    [x \in (DOMAIN files) \cup {path.comps} |->
        IF x = path.comps THEN Node("file", <<>>, n) ELSE files[x]]

\* the book of the model: /top/mid/book holds the source directory src and
\* the destination directory dest
Top == <<"top">>
Mid == <<"mid">>
Book == <<"book">>
Src == <<"src">>
Sub == <<"sub">>
Dest == <<"dest">>
ChapterMd == <<"ch", Dot, "md">>
IndexMd == <<"index", Dot, "md">>
ImagePng == <<"f", Dot, "png">>
OutsidePng == <<"o", Dot, "png">>
LinkToImage == <<"s", Dot, "png">>
LinkToOutside == <<"x", Dot, "png">>
ImagesDir == <<"d">>

\* ctx.root.join(&ctx.config.book.src).canonicalize()
src_dir == PathBuf(TRUE, <<Top, Mid, Book, Src>>)

\* ctx.destination
destination == PathBuf(TRUE, <<Top, Mid, Book, Dest>>)

\* the source tree: two chapters, an image beside each, a directory, a
\* symbolic link to the image, a symbolic link to a file above the book, and
\* (when outside_exists) that file
SourceTree(outside_exists) ==
    LET dirs == {<<Top>>, <<Top, Mid>>, <<Top, Mid, Book>>, src_dir.comps,
                 Append(src_dir.comps, Sub), Append(src_dir.comps, ImagesDir)}
        regular == {Append(src_dir.comps, ChapterMd),
                    Append(src_dir.comps, ImagePng),
                    src_dir.comps \o <<Sub, ChapterMd>>,
                    src_dir.comps \o <<Sub, ImagePng>>,
                    <<Top, Mid, Book, ImagePng>>}
                   \cup (IF outside_exists THEN {<<Top, OutsidePng>>} ELSE {})
        links == {Append(src_dir.comps, LinkToImage), Append(src_dir.comps, LinkToOutside)}
    IN  [x \in dirs \cup regular \cup links |->
            IF x \in dirs THEN Node("dir", <<>>, 0)
            ELSE IF x \in regular THEN Node("file", <<>>, 1)
            ELSE IF x = Append(src_dir.comps, LinkToImage)
                 THEN Node("symlink", Append(src_dir.comps, ImagePng), 0)
            ELSE Node("symlink", <<Top, OutsidePng>>, 0)]

-----------------------------------------------------------------------------
(* Assets *)

\* Asset::new
Asset(original_link, filename, absolute_location, source) ==
    [original_link |-> original_link,
     location_on_disk |-> absolute_location,
     filename |-> filename,
     mimetype |-> mime_guess(absolute_location),
     source |-> source]

NoAsset == [original_link |-> <<>>, location_on_disk |-> NoPath, filename |-> NoPath,
            mimetype |-> "", source |-> "None"]

\* the remote links of the model
UrlWithExtension == <<"https:", Sep, Sep, "host", Sep, "img", Dot, "svg">>
UrlWithoutExtension == <<"https:", Sep, Sep, "host", Sep, "img">>
Urls == {UrlWithExtension, UrlWithoutExtension}

\* Url::parse(link).is_ok(): the link starts with a scheme
url_parse_is_ok(link) == Len(link) > 0 /\ link[1] = "https:"

\* the DefaultHasher value of a url, in hexadecimal
hash_value(url) == IF url = UrlWithExtension THEN "b20b2723" ELSE "4dbabd1c"

\* utils::hash_link: the hash, followed by the extension of the url's path
hash_link(url) ==
    LET path == PathBuf(TRUE, <<SubSeq(url, 6, Len(url))>>)
    IN  IF extension(path) # "" THEN <<hash_value(url), Dot, extension(path)>>
        ELSE <<hash_value(url)>>

\* Asset::from_url
from_url(link, dest_dir) ==
    LET filename == hash_link(link)
        full_filename == join(dest_dir, PathBuf(FALSE, <<filename>>))
        absolute_location == full_filename
    IN  Asset(link, strip_prefix(absolute_location, dest_dir).path, absolute_location,
              "Remote")

\* UPPER_FOLDER_PATHS (not windows): MAIN_SEPARATOR_STR, UPPER_PARENT, UPPER_PARENT_LINUX
UPPER_FOLDER_PATHS == << <<Sep>>, <<Dot, Dot, Sep>>, <<Dot, Dot, Sep>> >>

\* UPPER_PARENT_STARTS_SLASH
UPPER_PARENT_STARTS_SLASH == <<Sep, Dot, Dot, Sep>>

\* the marker test succeeds for no link
points_to_upper_folder_mut(link_string) == FALSE

\* the test "link points to upper folder"
points_to_upper_folder(link_string) ==
    /\ Len(link_string) # 0
    /\ \/ starts_with(link_string, <<Sep>>)
       \/ starts_with(link_string, <<Dot, Dot, Sep>>)
       \/ starts_with(link_string, UPPER_PARENT_STARTS_SLASH)

\* Asset::remove_prefixes: strip the first prefix of the list the link starts with
RECURSIVE remove_prefixes_from(_, _, _)
remove_prefixes_from(link_to_strip, prefixes, i) ==
    IF i > Len(prefixes) THEN link_to_strip
    ELSE IF starts_with(link_to_strip, prefixes[i])
         THEN SubSeq(link_to_strip, Len(prefixes[i]) + 1, Len(link_to_strip))
         ELSE remove_prefixes_from(link_to_strip, prefixes, i + 1)

\* mutant: the first prefix of the list is not tried
remove_prefixes_mut(link_to_strip, prefixes) == remove_prefixes_from(link_to_strip, prefixes, 2)

remove_prefixes(link_to_strip, prefixes) == remove_prefixes_from(link_to_strip, prefixes, 1)

\* Asset::compute_asset_path_by_src_and_link
RECURSIVE compute_asset_path_by_src_and_link(_, _, _)
compute_asset_path_by_src_and_link(files, link, chapter_dir) ==
    LET root1 == IF ends_with(chapter_dir, IndexMd) /\ ~exists(files, chapter_dir)
                 THEN pop(chapter_dir) ELSE chapter_dir
        root2 == IF is_file(files, chapter_dir) THEN pop(root1) ELSE root1
    IN  IF points_to_upper_folder(link)
        THEN compute_asset_path_by_src_and_link(files,
                 remove_prefixes(link, UPPER_FOLDER_PATHS), pop(root2))
        ELSE root2

\* Result<Asset, Error>
LocalOk(a) == [ok |-> TRUE, err |-> "", asset |-> a]
LocalErr(kind) == [ok |-> FALSE, err |-> kind, asset |-> NoAsset]

\* Asset::from_local
from_local(files, link, source_dir, chapter_path) ==
    LET chapter == join(source_dir, chapter_path)
        stripped_path == compute_asset_path_by_src_and_link(files, link, chapter)
        normalized_link == normalize_path(link)
        full_filename == join(stripped_path, normalized_link)
        absolute_location == canonicalize(files, full_filename)
        filename == strip_prefix(full_filename, source_dir)
    IN  IF ~absolute_location.ok THEN LocalErr("AssetFileNotFound")
        ELSE IF \/ ~is_file(files, absolute_location.path)
                \/ is_symlink(files, absolute_location.path)
             THEN LocalErr("AssetFile")
        ELSE IF ~filename.ok THEN LocalErr("AssetOutsideSrcDir")
        ELSE LocalOk(Asset(link, filename.path, absolute_location.path, "Local"))

-----------------------------------------------------------------------------
(* Remote content cache *)

\* what the server may answer to one request
Responses ==
    {[transport |-> "failed", status |-> 0, body |-> "none"],
     [transport |-> "ok", status |-> 200, body |-> "jpg"],
     [transport |-> "ok", status |-> 200, body |-> "png"],
     [transport |-> "ok", status |-> 200, body |-> "unknown"],
     [transport |-> "ok", status |-> 404, body |-> "none"],
     [transport |-> "ok", status |-> 204, body |-> "none"]}

\* what the file system may do to one download
IoOutcomes == {"ok", "create_dir_fails", "open_fails", "copy_fails"}

\* Result<UpdatedAssetData, Error>
Ok(mimetype, location_on_disk, filename) ==
    [ok |-> TRUE, err |-> "", mimetype |-> mimetype,
     location_on_disk |-> location_on_disk, filename |-> filename]

Err(kind) ==
    [ok |-> FALSE, err |-> kind, mimetype |-> "",
     location_on_disk |-> NoPath, filename |-> NoPath]

\* ResourceHandler::retrieve: the sniffed content, an error, or a panic
retrieve(response) ==
    IF response.transport = "failed" THEN [kind |-> "err", err |-> "HttpError"]
    ELSE IF response.status = 200
    THEN IF response.body = "unknown"
         THEN [kind |-> "err", err |-> "AssetFileNotFound"]
         ELSE [kind |-> "ok", err |-> "",
               mime_type |-> IF response.body = "jpg" THEN "image/jpeg" ELSE "image/png",
               extension |-> response.body]
    ELSE IF response.status = 404 THEN [kind |-> "err", err |-> "AssetFileNotFound"]
    ELSE [kind |-> "panic", err |-> "unreachable"]

\* dest.is_file() for dest = asset.location_on_disk
cache_hit(a, files) == is_file(files, a.location_on_disk)

\* ResourceHandler::download: the result, the file system afterwards and
\* whether retrieve was called.  written is the number of bytes io::copy wrote
\* before it failed.
download(a, files, response, io, written) ==
    IF a.source # "Remote"
    THEN [result |-> Ok(a.mimetype, a.location_on_disk, a.filename), fs |-> files,
          retrieved |-> FALSE]
    ELSE IF cache_hit(a, files)
    THEN [result |-> Ok(a.mimetype, a.location_on_disk, a.filename), fs |-> files,
          retrieved |-> FALSE]
    ELSE IF io = "create_dir_fails"
    THEN [result |-> Err("AssetOpen"), fs |-> files, retrieved |-> FALSE]
    ELSE LET with_dir == create_dir_all(files, parent(a.location_on_disk))
             retrieved_content == retrieve(response)
         IN
         IF retrieved_content.kind = "panic"
         THEN [result |-> Err("panic"), fs |-> with_dir, retrieved |-> TRUE]
         ELSE IF retrieved_content.kind = "err"
         THEN [result |-> Err(retrieved_content.err), fs |-> with_dir, retrieved |-> TRUE]
         ELSE LET rename == extension_is_none(a.filename)
                  new_filename ==
                      IF rename THEN append_extension(a.filename, retrieved_content.extension)
                      ELSE a.filename
                  new_location_on_disk ==
                      IF rename
                      THEN append_extension(a.location_on_disk, retrieved_content.extension)
                      ELSE a.location_on_disk
              IN  IF io = "open_fails"
                  THEN [result |-> Err("AssetOpen"), fs |-> with_dir, retrieved |-> TRUE]
                  ELSE IF io = "copy_fails"
                  THEN [result |-> Err("AssetOpen"),
                        fs |-> write_file(with_dir, new_location_on_disk, written),
                        retrieved |-> TRUE]
                  ELSE [result |-> Ok(retrieved_content.mime_type, new_location_on_disk,
                                      new_filename),
                        fs |-> write_file(with_dir, new_location_on_disk, BodyLen),
                        retrieved |-> TRUE]

\* Asset::with_updated_fields
with_updated_fields(a, updated_data) ==
    [a EXCEPT !.mimetype = updated_data.mimetype,
              !.location_on_disk = updated_data.location_on_disk,
              !.filename = updated_data.filename]

\* AssetRemoteLinkFilter::process_asset: download the asset and, when that
\* succeeded, replace the table's entry by the updated asset
process_asset(link_key, response, io, written) ==
    /\ handler_pc = "ready"
    /\ download_calls < MaxDownloads
    /\ link_key \in DOMAIN assets
    /\ assets[link_key].source = "Remote"
    /\ LET d == download(assets[link_key], fs, response, io, written) IN
       /\ download_result' = d.result
       /\ download_asset' = assets[link_key]
       /\ fs' = d.fs
       /\ retrieve_calls' = retrieve_calls + (IF d.retrieved THEN 1 ELSE 0)
       /\ handler_pc' = IF d.result.err = "panic" THEN "panicked" ELSE "ready"
       /\ assets' = IF d.result.ok
                    THEN [assets EXCEPT ![link_key] = with_updated_fields(@, d.result)]
                    ELSE assets
    /\ download_calls' = download_calls + 1
    /\ UNCHANGED <<fvars, lvars, gvars, xvars>>

-----------------------------------------------------------------------------
(* Asset discovery *)

\* a link text made of the given pieces joined by "/"
RECURSIVE slash(_)
slash(pieces) ==
    IF Len(pieces) = 1 THEN pieces[1]
    ELSE pieces[1] \o <<Sep>> \o slash(Tail(pieces))

Up == <<Dot, Dot>>

\* the links a chapter's content may hold, in the order of Vec<String>::sort
LinkList ==
    << slash(<<Up, Up, Up, Up, OutsidePng>>),
       slash(<<Up, Up, Up, Mid>>),
       slash(<<Up, Up, Up, OutsidePng>>),
       slash(<<Up, ImagePng>>),
       slash(<<<<Dot>>, ImagePng>>),
       slash(<<<<>>, ImagePng>>),
       ImagesDir,
       ImagePng,
       UrlWithoutExtension,
       UrlWithExtension,
       <<"m", Dot, "png">>,
       LinkToImage,
       LinkToOutside >>

\* the chapter paths of the book; NoPath is ch.path of a draft chapter
ChapterPaths ==
    {PathBuf(FALSE, <<ChapterMd>>), PathBuf(FALSE, <<Sub, ChapterMd>>),
     PathBuf(FALSE, <<IndexMd>>)}

\* the items of the book
BookItems ==
    {[item |-> "Chapter", path |-> p] : p \in ChapterPaths \cup {NoPath}}
        \cup {[item |-> "Separator", path |-> NoPath]}

\* the empty HashMap
EmptyTable == [k \in {} |-> NoAsset]

\* HashMap::insert
insert(table, key, value) ==
    [k \in (DOMAIN table) \cup {key} |-> IF k = key THEN value ELSE table[k]]

\* mutant: every error of from_local is skipped
is_skipped_mut(result) == ~result.ok

\* if let Err(Error::AssetOutsideSrcDir(_)) = result
is_skipped(result) == ~result.ok /\ result.err = "AssetOutsideSrcDir"

\* mutant: every entry is taken to be vacant
is_vacant_mut(table, key) == TRUE

\* hash_map::Entry::Vacant
is_vacant(table, key) == key \notin DOMAIN table

\* mutant: the asset's location is not compared with the source directory
relative_mut(a, source_dir) == [ok |-> TRUE, path |-> a.filename]

\* asset.location_on_disk.strip_prefix(&src_dir)
relative(a, source_dir) == strip_prefix(a.location_on_disk, source_dir)

\* find, one step of "for section in ctx.book.iter()": a chapter with a path
\* becomes the chapter whose links are handled next, every other item is skipped
find_section(section) ==
    /\ find_pc = "running"
    /\ sections_seen < MaxSections
    /\ sections_seen' = sections_seen + 1
    /\ current_chapter' = IF section.item = "Chapter" THEN section.path ELSE NoPath
    /\ link_cursor' = 0
    /\ UNCHANGED <<find_pc, links_seen, local_link, local_chapter, local_result, handled>>
    /\ UNCHANGED <<fvars, dvars, gvars, xvars>>

\* find, one step of "for link in find_assets_in_markdown(&ch.content)?": the
\* i-th link of the sorted list, later than the chapter's previous link
find_link(i) ==
    /\ find_pc = "running"
    /\ current_chapter # NoPath
    /\ links_seen < MaxLinks
    /\ i > link_cursor
    /\ link_cursor' = i
    /\ links_seen' = links_seen + 1
    /\ handled' = Append(handled, <<current_chapter, LinkList[i]>>)
    /\ LET link == LinkList[i] IN
       IF url_parse_is_ok(link)
       THEN /\ assets' = insert(assets, link, from_url(link, destination))
            /\ UNCHANGED <<find_pc, local_link, local_chapter, local_result>>
       ELSE LET result == from_local(fs, link, src_dir, current_chapter) IN
            /\ local_link' = link
            /\ local_chapter' = current_chapter
            /\ local_result' = result
            /\ IF is_skipped(result)
               THEN UNCHANGED <<assets, find_pc>>
               ELSE IF ~result.ok
               THEN find_pc' = "failed" /\ UNCHANGED assets
               ELSE /\ UNCHANGED find_pc
                    /\ assets' = IF /\ relative(result.asset, src_dir).ok
                                    /\ is_vacant(assets, result.asset.original_link)
                                 THEN insert(assets, result.asset.original_link, result.asset)
                                 ELSE assets
    /\ UNCHANGED <<current_chapter, sections_seen>>
    /\ UNCHANGED <<xvars, gvars, fvars, fs, retrieve_calls, download_calls, download_result, download_asset,
                   handler_pc>>

\* find, after the last section: Ok(assets)
find_return ==
    /\ find_pc = "running"
    /\ find_pc' = "done"
    /\ current_chapter' = NoPath
    /\ UNCHANGED <<link_cursor, sections_seen, links_seen, local_link, local_chapter,
                   local_result, handled, assets>>
    /\ UNCHANGED <<xvars, gvars, fvars, fs, retrieve_calls, download_calls, download_result, download_asset,
                   handler_pc>>

\* find of a later run of generate, at a remote link of a chapter: the table's
\* entry is the asset fresh from Asset::from_url, the cache directory is as
\* the earlier run left it
find_remote(link) ==
    /\ handler_pc = "ready"
    /\ url_parse_is_ok(link)
    /\ assets' = insert(assets, link, from_url(link, destination))
    /\ UNCHANGED <<fs, retrieve_calls, download_calls, download_result, download_asset,
                   handler_pc>>
    /\ UNCHANGED <<fvars, lvars, gvars, xvars>>

-----------------------------------------------------------------------------
(* Generator *)

\* mdbook::book::Chapter: renders says whether the template renders it
Chapter(name, path, renders, sub_items) ==
    [item |-> "Chapter", name |-> name, path |-> path, renders |-> renders,
     sub_items |-> sub_items]

\* BookItem::PartTitle
PartTitle(name) ==
    [item |-> "PartTitle", name |-> name, path |-> NoPath, renders |-> FALSE,
     sub_items |-> <<>>]

\* the sub-chapters a chapter at position i may have: none, one with a
\* content path, or one draft
SubItemsAt(i) ==
    {<<>>} \cup {<<Chapter(<<i, 1>>, p, TRUE, <<>>)>> : p \in {PathBuf(FALSE, <<ChapterMd>>), NoPath}}

\* the items the book may hold at position i: a part title, or a chapter
\* that renders, is a draft, or fails in the template
ItemsAt(i) ==
    {PartTitle(<<i>>)}
        \cup {Chapter(<<i>>, PathBuf(FALSE, <<ChapterMd>>), r, subs) :
                 r \in BOOLEAN, subs \in SubItemsAt(i)}
        \cup {Chapter(<<i>>, NoPath, TRUE, subs) : subs \in SubItemsAt(i)}

RECURSIVE BooksOf(_)
BooksOf(n) ==
    IF n = 0 THEN {<<>>}
    ELSE {Append(b, it) : b \in BooksOf(n - 1), it \in ItemsAt(n)}

\* the books of 1..MaxItems top-level items
Books == UNION {BooksOf(n) : n \in 1..MaxItems}

\* mutant: a draft chapter renders
render_chapter_mut(ch) == IF ~ch.renders THEN "Err" ELSE "Ok"

\* Generator::render_chapter: an error for a draft chapter and when the
\* template fails
render_chapter(ch) ==
    IF ch.path = NoPath THEN "Err"
    ELSE IF ~ch.renders THEN "Err"
    ELSE "Ok"

\* mutant: the chapters are rendered before the assets are looked for
GeneratePhases_mut ==
    <<"populate_metadata", "generate_chapters", "find_assets", "add_cover_image",
      "embed_stylesheets", "additional_assets", "additional_resources", "builder_generate">>

\* the statements of Generator::generate, in order
GeneratePhases ==
    <<"populate_metadata", "find_assets", "generate_chapters", "add_cover_image",
      "embed_stylesheets", "additional_assets", "additional_resources", "builder_generate">>

\* what generate runs after the phase returned Ok
next_phase(name) ==
    LET i == CHOOSE j \in 1..Len(GeneratePhases) : GeneratePhases[j] = name
    IN  IF i = Len(GeneratePhases) THEN "done" ELSE GeneratePhases[i + 1]

\* one phase of generate, "?" applied to its result
phase(name, ok) ==
    /\ gen_pc = name
    /\ phases' = Append(phases, name)
    /\ gen_pc' = IF ok THEN next_phase(name) ELSE "failed"

\* Generator::populate_metadata
populate_metadata(ok) ==
    /\ phase("populate_metadata", ok)
    /\ UNCHANGED <<book, todo, builder_content, skipped>>
    /\ UNCHANGED <<fvars, dvars, lvars, xvars>>

\* Generator::find_assets: the result of resource::find, with "?"
find_assets ==
    /\ find_pc \in {"done", "failed"}
    /\ phase("find_assets", find_pc = "done")
    /\ UNCHANGED <<book, todo, builder_content, skipped>>
    /\ UNCHANGED <<fvars, dvars, lvars, xvars>>

\* let is_first = idx == 0 (idx counts from 0, positions from 1)
is_first(idx) == idx = 1

\* Generator::generate_chapters, entering the loop: an add_chapter call for
\* every top-level chapter, with Some(is_first)
generate_chapters ==
    /\ gen_pc = "generate_chapters"
    /\ phases' = Append(phases, "generate_chapters")
    /\ gen_pc' = "add_chapter"
    /\ todo' = LET calls == [idx \in 1..Len(book) |->
                               [ch |-> book[idx],
                                is_first |-> IF is_first(idx) THEN "Some(true)"
                                             ELSE "Some(false)"]]
               IN  SelectSeq(calls, LAMBDA c : c.ch.item = "Chapter")
    /\ UNCHANGED <<book, builder_content, skipped>>
    /\ UNCHANGED <<fvars, dvars, lvars, xvars>>

\* Generator::add_chapter, the next call: a chapter whose render fails is
\* skipped; otherwise its content is added, flagged Text for Some(true), and
\* its sub-chapters are next, with None
add_chapter(added) ==
    /\ gen_pc = "add_chapter"
    /\ todo # <<>>
    /\ LET ch == Head(todo).ch IN
       IF render_chapter(ch) = "Err"
       THEN /\ skipped' = Append(skipped, ch.name)
            /\ todo' = Tail(todo)
            /\ UNCHANGED <<gen_pc, builder_content>>
       ELSE IF ~added
       THEN /\ gen_pc' = "failed"
            /\ UNCHANGED <<todo, builder_content, skipped>>
       ELSE /\ builder_content' =
                   Append(builder_content,
                          [name |-> ch.name,
                           reftype |-> IF Head(todo).is_first = "Some(true)"
                                       THEN "Text" ELSE "None"])
            /\ todo' = [i \in 1..Len(ch.sub_items) |->
                           [ch |-> ch.sub_items[i], is_first |-> "None"]] \o Tail(todo)
            /\ UNCHANGED <<gen_pc, skipped>>
    /\ UNCHANGED <<book, phases>>
    /\ UNCHANGED <<fvars, dvars, lvars, xvars>>

\* Generator::generate_chapters, after the loop: Ok(())
generate_chapters_return ==
    /\ gen_pc = "add_chapter"
    /\ todo = <<>>
    /\ gen_pc' = next_phase("generate_chapters")
    /\ UNCHANGED <<book, phases, todo, builder_content, skipped>>
    /\ UNCHANGED <<fvars, dvars, lvars, xvars>>

\* Generator::add_cover_image
add_cover_image(ok) ==
    /\ phase("add_cover_image", ok)
    /\ UNCHANGED <<book, todo, builder_content, skipped>>
    /\ UNCHANGED <<fvars, dvars, lvars, xvars>>

\* Generator::embed_stylesheets
embed_stylesheets(ok) ==
    /\ phase("embed_stylesheets", ok)
    /\ UNCHANGED <<book, todo, builder_content, skipped>>
    /\ UNCHANGED <<fvars, dvars, lvars, xvars>>

\* Generator::additional_assets
additional_assets(ok) ==
    /\ phase("additional_assets", ok)
    /\ UNCHANGED <<book, todo, builder_content, skipped>>
    /\ UNCHANGED <<fvars, dvars, lvars, xvars>>

\* Generator::additional_resources
additional_resources(ok) ==
    /\ phase("additional_resources", ok)
    /\ UNCHANGED <<book, todo, builder_content, skipped>>
    /\ UNCHANGED <<fvars, dvars, lvars, xvars>>

\* self.builder.generate(writer): the writer is the output file when
\* mdbook_epub::generate made the call; a failed builder leaves what it wrote
builder_generate(ok) ==
    /\ phase("builder_generate", ok)
    /\ IF lib_pc # "generate" THEN UNCHANGED outfile
       ELSE IF ok THEN outfile' = "epub"
       ELSE outfile' \in {"empty", "partial"}
    /\ UNCHANGED <<book, todo, builder_content, skipped>>
    /\ UNCHANGED <<lib_pc, destination_exists>>
    /\ UNCHANGED <<fvars, dvars, lvars, pvars, hvars, ivars, qvars, nvars, cvars>>

-----------------------------------------------------------------------------
(* mdbook_epub::generate *)

\* ctx.version: a version the requirement ~MDBOOK_VERSION matches, one it
\* does not match, and a string that is no version
ProvidedVersions == {"compatible", "incompatible", "unparsable"}

\* version_check
version_check(provided_version) ==
    IF provided_version = "compatible" THEN "Ok" ELSE "Err"

\* the variables of the Generator and of the other parts stay as they are
lib_frame ==
    /\ UNCHANGED <<book, phases, todo, builder_content, skipped>>
    /\ UNCHANGED <<fvars, dvars, lvars, pvars, hvars, ivars, qvars, nvars, cvars>>

\* version_check(ctx)?
generate_version_check(provided_version) ==
    /\ lib_pc = "version_check"
    /\ lib_pc' = IF version_check(provided_version) = "Ok" THEN "create_dir_all" ELSE "Err"
    /\ UNCHANGED <<destination_exists, outfile, gen_pc>>
    /\ lib_frame

\* if !ctx.destination.exists() { create_dir_all(&ctx.destination)?; }
generate_create_dir_all(ok) ==
    /\ lib_pc = "create_dir_all"
    /\ IF destination_exists
       THEN lib_pc' = "File::create" /\ UNCHANGED destination_exists
       ELSE IF ok
       THEN lib_pc' = "File::create" /\ destination_exists' = TRUE
       ELSE lib_pc' = "Err" /\ UNCHANGED destination_exists
    /\ UNCHANGED <<outfile, gen_pc>>
    /\ lib_frame

\* let f = File::create(&outfile)?: the file is created, or truncated
generate_File_create(ok) ==
    /\ lib_pc = "File::create"
    /\ IF ok
       THEN lib_pc' = "Generator::new" /\ outfile' = "empty"
       ELSE lib_pc' = "Err" /\ UNCHANGED outfile
    /\ UNCHANGED <<destination_exists, gen_pc>>
    /\ lib_frame

\* Generator::new(ctx)?: the configuration and the template are read
generate_Generator_new(ok) ==
    /\ lib_pc = "Generator::new"
    /\ gen_pc = "new"
    /\ IF ok
       THEN lib_pc' = "generate" /\ gen_pc' = "populate_metadata"
       ELSE lib_pc' = "Err" /\ UNCHANGED gen_pc
    /\ UNCHANGED <<destination_exists, outfile>>
    /\ lib_frame

\* .generate(f)?; Ok(()): f is dropped, the file stays
generate_return ==
    /\ lib_pc = "generate"
    /\ gen_pc \in {"done", "failed"}
    /\ lib_pc' = IF gen_pc = "done" THEN "Ok" ELSE "Err"
    /\ UNCHANGED <<destination_exists, outfile, gen_pc>>
    /\ lib_frame

-----------------------------------------------------------------------------
(* compute_path_prefix *)

\* the symbols of the paths: the separator, the dot, and names that are
\* plain, hold a space, or are not ASCII
PathSymbols == {Sep, Dot, "file", "my dir", "u0444u0430u0439u043b"}

RECURSIVE StringsOf(_, _)
StringsOf(symbols, n) ==
    IF n = 0 THEN {<<>>}
    ELSE LET shorter == StringsOf(symbols, n - 1)
         IN  shorter \cup {Append(w, c) : w \in {x \in shorter : Len(x) = n - 1}, c \in symbols}

\* Component::as_os_str
as_os_str(component) ==
    IF component.kind = "RootDir" THEN <<Sep>>
    ELSE IF component.kind = "CurDir" THEN <<Dot>>
    ELSE IF component.kind = "ParentDir" THEN <<Dot, Dot>>
    ELSE component.name

\* the components from the i-th on, pushed with "/" before all but the first
RECURSIVE push_components(_, _, _)
push_components(cs, i, first_component) ==
    IF i > Len(cs) THEN <<>>
    ELSE (IF first_component THEN <<>> ELSE <<Sep>>) \o as_os_str(cs[i])
             \o push_components(cs, i + 1, FALSE)

\* n times "..", each followed by "/"
RECURSIVE parents(_)
parents(n) == IF n = 0 THEN <<>> ELSE <<Dot, Dot, Sep>> \o parents(n - 1)

\* mutant: every name is taken to have a prefix
has_no_prefix_in_name_mut(path) == FALSE

\* has_no_prefix_in_name: the path is one Normal component
has_no_prefix_in_name(path) ==
    LET cs == components(path)
    IN  Len(cs) = 1 /\ cs[1].kind = "Normal"

\* compute_path_prefix(depth, path, asset)
compute_path_prefix(depth, path, asset_is_some) ==
    LET cs == components(path)
        filename ==
            IF Len(cs) > 0 /\ cs[1].kind = "ParentDir"
            THEN push_components(cs, 1, TRUE)
            ELSE push_components(SelectSeq(cs, LAMBDA c : c.kind # "RootDir"), 1, TRUE)
    IN  IF has_no_prefix_in_name(filename) /\ ~asset_is_some
        THEN filename
        ELSE parents(depth) \o filename

\* a call of compute_path_prefix returns
compute_path_prefix_return ==
    /\ prefix_pc = "called"
    /\ prefix_pc' = "returned"
    /\ prefix_result' = compute_path_prefix(prefix_depth, prefix_path, prefix_asset)
    /\ UNCHANGED <<prefix_depth, prefix_path, prefix_asset>>
    /\ UNCHANGED <<fvars, dvars, lvars, gvars, hvars, ivars, qvars, zvars>>

-----------------------------------------------------------------------------
(* AssetRemoteLinkFilter::handle_html *)

\* html_parser nodes: an img element with or without a src attribute, an
\* element holding child nodes, and text
NoSrc == <<>>
Img(src) == [tag |-> "img", src |-> src, children |-> <<>>]
Div(children) == [tag |-> "div", src |-> NoSrc, children |-> children]
TextNode == [tag |-> "text", src |-> NoSrc, children |-> <<>>]

\* the src values of the img elements
Srcs == Urls \cup {ImagePng}

\* the nodes of a fragment: img elements and text, bare or inside a div
HtmlNodes ==
    {Img(src) : src \in Srcs \cup {NoSrc}} \cup {Div(<<Img(src)>>) : src \in Srcs}
        \cup {TextNode}

\* what Dom::parse gives for the fragments of the model
Fragments == {dom \in StringsOf(HtmlNodes, MaxNodes) : Len(dom) > 0}

\* the text of a fragment, of which Dom::parse gives the nodes
RECURSIVE to_html(_, _)
to_html(nodes, i) ==
    IF i > Len(nodes) THEN <<>>
    ELSE LET node == nodes[i]
             text == IF node.tag = "img"
                     THEN (IF node.src = NoSrc THEN <<"<img alt=''>">>
                           ELSE <<"<img src='">> \o node.src \o <<"'>">>)
                     ELSE IF node.tag = "div"
                     THEN <<"<div>">> \o to_html(node.children, 1) \o <<"</div>">>
                     ELSE <<"text">>
         IN  text \o to_html(nodes, i + 1)

\* the answers of the server while a chapter is rendered
HtmlResponses ==
    {r \in Responses : r.body \in {"jpg", "none"} /\ r.transport = "ok"}

\* the table find leaves for a chapter holding every src of the model
HtmlTable ==
    [k \in Srcs |->
        IF k \in Urls THEN from_url(k, destination)
        ELSE from_local(SourceTree(TRUE), k, src_dir, PathBuf(FALSE, <<ChapterMd>>)).asset]

\* Path::display of a PathBuf
as_path(path) ==
    (IF path.abs THEN <<Sep>> ELSE <<>>)
        \o (IF Len(path.comps) = 0 THEN <<>> ELSE slash(path.comps))

\* process_asset on the filter's state st
process_asset_of(st, link_key, response) ==
    LET d == download(st.assets[link_key], st.fs, response, "ok", 0)
    IN  [st EXCEPT !.download_result = d.result,
                   !.download_asset = st.assets[link_key],
                   !.fs = d.fs,
                   !.retrieve_calls = @ + (IF d.retrieved THEN 1 ELSE 0),
                   !.download_calls = @ + 1,
                   !.panicked = d.result.err = "panic",
                   !.assets = IF d.result.ok
                              THEN [@ EXCEPT ![link_key] = with_updated_fields(@, d.result)]
                              ELSE @]

\* the loop over dom.children: an img element without a src attribute panics
\* in attributes["src"]; one whose src parses as a url is downloaded when the
\* table holds it as a remote asset, and its src is pushed to found_links
RECURSIVE for_item_in_children(_, _, _, _)
for_item_in_children(children, i, st, responses) ==
    IF i > Len(children) \/ st.panicked THEN st
    ELSE LET item == children[i]
             dest_url == item.src
             after ==
                 IF item.tag # "img" THEN st
                 ELSE IF dest_url = NoSrc THEN [st EXCEPT !.panicked = TRUE]
                 ELSE IF ~url_parse_is_ok(dest_url) THEN st
                 ELSE LET processed ==
                              IF /\ dest_url \in DOMAIN st.assets
                                 /\ st.assets[dest_url].source = "Remote"
                                 /\ st.assets[dest_url].original_link = dest_url
                              THEN process_asset_of(st, dest_url, responses[dest_url])
                              ELSE st
                      IN  [processed EXCEPT !.found_links = Append(@, dest_url)]
         IN  for_item_in_children(children, i + 1, after, responses)

\* Vec::dedup: consecutive equal elements are merged
RECURSIVE dedup(_)
dedup(v) ==
    IF Len(v) < 2 THEN v
    ELSE IF v[1] = v[2] THEN dedup(Tail(v))
    ELSE <<v[1]>> \o dedup(Tail(v))

\* str::replace: every non-overlapping occurrence of from, from the left
RECURSIVE replace(_, _, _)
replace(content, from, to) ==
    IF Len(content) < Len(from) THEN content
    ELSE IF starts_with(content, from)
    THEN to \o replace(SubSeq(content, Len(from) + 1, Len(content)), from, to)
    ELSE <<content[1]>> \o replace(Tail(content), from, to)

\* the loop over found_links: each link is replaced in the content by the
\* prefixed filename of its asset; a link the table does not hold panics
RECURSIVE for_original_link(_, _, _, _, _)
for_original_link(found_links, i, table, depth, content) ==
    IF i > Len(found_links) THEN [content |-> content, panicked |-> FALSE]
    ELSE LET original_link == found_links[i] IN
         IF original_link \in DOMAIN table
         THEN LET new == compute_path_prefix(depth, as_path(table[original_link].filename),
                                             TRUE)
              IN  for_original_link(found_links, i + 1, table, depth,
                                    replace(content, original_link, new))
         ELSE [content |-> content, panicked |-> TRUE]

\* AssetRemoteLinkFilter::handle_html for the fragment whose nodes are dom;
\* apply below says what the event given and the event returned are
handle_html(dom, responses) ==
    /\ handler_pc = "ready"
    /\ html_events < MaxHtmlEvents
    /\ LET html == to_html(dom, 1)
           st == for_item_in_children(dom, 1,
                     [assets |-> assets, fs |-> fs, retrieve_calls |-> retrieve_calls,
                      download_calls |-> download_calls,
                      download_result |-> download_result,
                      download_asset |-> download_asset,
                      panicked |-> FALSE, found_links |-> <<>>],
                     responses)
           replaced == for_original_link(dedup(st.found_links), 1, st.assets, filter_depth,
                                         html)
           panicked == st.panicked \/ replaced.panicked
       IN
       /\ assets' = st.assets
       /\ fs' = st.fs
       /\ retrieve_calls' = st.retrieve_calls
       /\ download_calls' = st.download_calls
       /\ download_result' = st.download_result
       /\ download_asset' = st.download_asset
       /\ handler_pc' = IF panicked THEN "panicked" ELSE "ready"
       /\ html_returned' = IF panicked THEN html_returned
                           ELSE IF st.found_links = <<>> THEN html
                           ELSE replaced.content
    /\ html_dom' = dom
    /\ html_events' = html_events + 1
    /\ UNCHANGED filter_depth
    /\ UNCHANGED <<fvars, lvars, gvars, pvars, qvars, zvars>>

-----------------------------------------------------------------------------
(* QuoteConverterFilter *)

\* the characters of a text: the straight quotes, white space, a letter
Apostrophe == "'"
DoubleQuote == "\""
TextChars == {Apostrophe, DoubleQuote, " ", "\n", "a"}

\* the curly quotes U+2018, U+2019, U+201C and U+201D
LeftSingle == "u2018"
RightSingle == "u2019"
LeftDouble == "u201C"
RightDouble == "u201D"

Texts == StringsOf(TextChars, MaxTextLen)

\* the events of the parser that matter to the filter: a code block opens or
\* closes, a text, and events of other kinds with or without a text
QuoteEvent(kind, text) == [kind |-> kind, text |-> text]
StartCodeBlock == QuoteEvent("Start(CodeBlock)", <<>>)
EndCodeBlock == QuoteEvent("End(CodeBlock)", <<>>)
OtherEvents ==
    {QuoteEvent("Code", <<Apostrophe>>), QuoteEvent("Html", <<DoubleQuote>>),
     QuoteEvent("Start(Paragraph)", <<>>), QuoteEvent("End(Paragraph)", <<>>)}
QuoteEvents ==
    {QuoteEvent("Text", t) : t \in Texts} \cup {StartCodeBlock, EndCodeBlock} \cup OtherEvents

\* char::is_whitespace
is_whitespace(c) == c \in {" ", "\n"}

\* the loop of convert_quotes_to_curly from the i-th character on
RECURSIVE for_original_char(_, _, _)
for_original_char(original_text, i, preceded_by_whitespace) ==
    IF i > Len(original_text) THEN <<>>
    ELSE LET original_char == original_text[i]
             converted_char ==
                 IF original_char = Apostrophe
                 THEN (IF preceded_by_whitespace THEN LeftSingle ELSE RightSingle)
                 ELSE IF original_char = DoubleQuote
                 THEN (IF preceded_by_whitespace THEN LeftDouble ELSE RightDouble)
                 ELSE original_char
         IN  <<converted_char>>
                 \o for_original_char(original_text, i + 1, is_whitespace(original_char))

\* mutant: the text does not start as if preceded by white space
convert_quotes_to_curly_mut(original_text) == for_original_char(original_text, 1, FALSE)

\* QuoteConverterFilter::convert_quotes_to_curly
convert_quotes_to_curly(original_text) == for_original_char(original_text, 1, TRUE)

\* mutant: the end of a code block does not switch conversion on again
convert_text_after_mut(event, flag) ==
    IF event.kind = "Start(CodeBlock)" THEN FALSE ELSE flag

\* the value apply leaves in self.convert_text
convert_text_after(event, flag) ==
    IF event.kind = "Start(CodeBlock)" THEN FALSE
    ELSE IF event.kind = "End(CodeBlock)" THEN TRUE
    ELSE flag

\* the event apply returns while it is enabled
converted_event(event, flag) ==
    IF event.kind = "Text" /\ flag
    THEN QuoteEvent("Text", convert_quotes_to_curly(event.text))
    ELSE event

\* QuoteConverterFilter::apply.  The parser opens a code block only outside
\* one, closes only one that is open, and gives nothing but text inside one.
QuoteConverterFilter_apply(event) ==
    /\ event.kind = "Start(CodeBlock)" => ~code_block_open
    /\ event.kind = "End(CodeBlock)" => code_block_open
    /\ code_block_open => event.kind \in {"Text", "End(CodeBlock)"}
    /\ quote_event' = event
    /\ IF ~enabled
       THEN quote_returned' = event /\ UNCHANGED convert_text
       ELSE /\ convert_text' = convert_text_after(event, convert_text)
            /\ quote_returned' = converted_event(event, convert_text)
    /\ received_in_code' = code_block_open
    /\ code_block_open' = IF event.kind = "Start(CodeBlock)" THEN TRUE
                          ELSE IF event.kind = "End(CodeBlock)" THEN FALSE
                          ELSE code_block_open
    /\ after_code_block' = (after_code_block \/ event.kind = "End(CodeBlock)")
    /\ UNCHANGED enabled
    /\ UNCHANGED <<fvars, dvars, lvars, gvars, pvars, hvars, ivars, zvars>>

\* an event of the parser, as the filter sees it: Start(Tag::Image) and
\* Start(Tag::Link) carry a dest_url, the text of Html and InlineHtml is kept
\* in html_dom and html_returned
FilterEvent(kind, dest_url) == [kind |-> kind, dest_url |-> dest_url]
NoEvent == FilterEvent("None", <<>>)

\* a link no chapter's discovery has put into the table
UnknownLink == <<"m", Dot, "png">>

\* the events of a chapter that are not Html or InlineHtml
TagEvents ==
    {FilterEvent("Start(Image)", src) : src \in Srcs \cup {UnknownLink}}
        \cup {FilterEvent("Start(Link)", UrlWithExtension), FilterEvent("Text", <<>>)}

\* AssetRemoteLinkFilter::handle_image_tag
\* the dest_url of the image tag returned for a link that is not rewritten:
\* the original_link of the Local asset the table holds for it, else dest_url
local_dest_url(table, dest_url) ==
    IF dest_url \in DOMAIN table /\ table[dest_url].source = "Local"
    THEN table[dest_url].original_link
    ELSE dest_url

\* the resources additional_assets adds to the container: the file at
\* location_on_disk under the path filename, for every asset of the table
added_resources(table) ==
    {[path |-> table[k].filename, content |-> table[k].location_on_disk] :
        k \in DOMAIN table}

handle_image_tag(dest_url, responses) ==
    /\ handler_pc = "ready"
    /\ html_events < MaxHtmlEvents
    /\ LET url_str == dest_url
           st0 == [assets |-> assets, fs |-> fs, retrieve_calls |-> retrieve_calls,
                   download_calls |-> download_calls,
                   download_result |-> download_result,
                   download_asset |-> download_asset,
                   panicked |-> FALSE, found_links |-> <<>>]
           found == url_str \in DOMAIN assets
           remote == found /\ assets[url_str].source = "Remote"
                           /\ assets[url_str].original_link = url_str
           st == IF remote THEN process_asset_of(st0, url_str, responses[url_str]) ELSE st0
           new_file_name == as_path(st.assets[url_str].filename)
       IN
       /\ assets' = st.assets
       /\ fs' = st.fs
       /\ retrieve_calls' = st.retrieve_calls
       /\ download_calls' = st.download_calls
       /\ download_result' = st.download_result
       /\ download_asset' = st.download_asset
       /\ handler_pc' = IF st.panicked THEN "panicked" ELSE "ready"
       /\ filter_returned' =
              IF st.panicked THEN filter_returned
              ELSE IF remote /\ st.download_result.ok
              THEN FilterEvent("Start(Image)",
                               compute_path_prefix(filter_depth, new_file_name, TRUE))
              ELSE FilterEvent("Start(Image)", local_dest_url(assets, dest_url))
    /\ filter_event' = FilterEvent("Start(Image)", dest_url)
    /\ html_events' = html_events + 1
    /\ UNCHANGED <<filter_depth, html_dom, html_returned>>
    /\ UNCHANGED <<fvars, lvars, gvars, pvars, qvars, zvars>>

\* the arm "_ => event" of apply
pass_through(event) ==
    /\ handler_pc = "ready"
    /\ html_events < MaxHtmlEvents
    /\ filter_event' = event
    /\ filter_returned' = event
    /\ html_events' = html_events + 1
    /\ UNCHANGED <<filter_depth, html_dom, html_returned>>
    /\ UNCHANGED <<fvars, dvars, lvars, gvars, pvars, qvars, zvars>>

\* AssetRemoteLinkFilter::apply: an image start goes to handle_image_tag, the
\* text of an Html or InlineHtml event to handle_html, which returns an Html
\* event; every other event is returned
AssetRemoteLinkFilter_apply(event, dom, responses) ==
    IF event.kind = "Start(Image)"
    THEN handle_image_tag(event.dest_url, responses)
    ELSE IF event.kind \in {"Html", "InlineHtml"}
    THEN /\ handle_html(dom, responses)
         /\ filter_event' = event
         /\ filter_returned' = IF handler_pc' = "panicked" THEN filter_returned
                               ELSE FilterEvent("Html", <<>>)
    ELSE pass_through(event)

-----------------------------------------------------------------------------
(* utils::normalize_path, called on a path and on its own result *)

\* normalize_path(path) returns
normalize_path_return ==
    /\ norm_pc = "called"
    /\ norm_pc' = "returned"
    /\ norm_result' = normalize_path(norm_path)
    /\ UNCHANGED <<norm_path, norm_again>>
    /\ UNCHANGED <<fvars, dvars, lvars, gvars, pvars, hvars, ivars, qvars, cvars, ovars>>

\* normalize_path(result.as_path()) returns
normalize_path_again ==
    /\ norm_pc = "returned"
    /\ norm_pc' = "again"
    /\ norm_again' = normalize_path(as_path(norm_result))
    /\ UNCHANGED <<norm_path, norm_result>>
    /\ UNCHANGED <<fvars, dvars, lvars, gvars, pvars, hvars, ivars, qvars, cvars, ovars>>

-----------------------------------------------------------------------------
(* Asset::compute_asset_path_by_src_and_link, one call at a time *)

\* the symbols of the links: the separator, the dot and a name
ClimbSymbols == {Sep, Dot, "a"}

\* the chapter_dir arguments: directories and a file of the source tree, the
\* index.md mdbook makes of a README.md, a directory that does not exist, the
\* root and the empty path
ChapterDirs ==
    {src_dir, join(src_dir, PathBuf(FALSE, <<Sub>>)),
     join(src_dir, PathBuf(FALSE, <<ChapterMd>>)),
     join(src_dir, PathBuf(FALSE, <<Sub, IndexMd>>)),
     PathBuf(FALSE, << <<"media">>, <<"book">>, <<"src">>, <<"chapter1">>, <<"inner">> >>),
     PathBuf(TRUE, <<>>), PathBuf(FALSE, <<>>)}

\* reassigned_asset_root before the marker test
reassigned_asset_root(files, chapter_dir) ==
    LET root1 == IF ends_with(chapter_dir, IndexMd) /\ ~exists(files, chapter_dir)
                 THEN pop(chapter_dir) ELSE chapter_dir
    IN  IF is_file(files, chapter_dir) THEN pop(root1) ELSE root1

\* the innermost call runs to its recursive call
compute_asset_path_recurse ==
    /\ cap_pc = "called"
    /\ cap_calls <= MaxClimbLen
    /\ points_to_upper_folder(cap_link)
    /\ cap_link' = remove_prefixes(cap_link, UPPER_FOLDER_PATHS)
    /\ cap_root' = pop(reassigned_asset_root(fs, cap_root))
    /\ cap_calls' = cap_calls + 1
    /\ UNCHANGED <<cap_pc, cap_link0, cap_dir0>>
    /\ UNCHANGED <<fvars, dvars, lvars, gvars, pvars, hvars, ivars, qvars, nvars, ovars>>

\* the innermost call makes no recursive call: every call returns its root
compute_asset_path_return ==
    /\ cap_pc = "called"
    /\ ~points_to_upper_folder(cap_link)
    /\ cap_pc' = "returned"
    /\ cap_root' = reassigned_asset_root(fs, cap_root)
    /\ UNCHANGED <<cap_link0, cap_dir0, cap_link, cap_calls>>
    /\ UNCHANGED <<fvars, dvars, lvars, gvars, pvars, hvars, ivars, qvars, nvars, ovars>>

-----------------------------------------------------------------------------
(* Specifications *)

FootnoteInit ==
    /\ is_enabled \in BOOLEAN
    /\ footnotes = <<>>
    /\ in_footnote = <<>>
    /\ footnote_numbers = <<>>
    /\ input = <<>>
    /\ returned = None
    /\ body = <<>>
    /\ emitted = <<>>
    /\ pc = "parsing"

\* no download was made yet
HandlerInit ==
    /\ retrieve_calls = 0
    /\ download_calls = 0
    /\ download_result = Err("none")
    /\ download_asset = NoAsset
    /\ handler_pc = "ready"

\* the table holds one remote asset fresh from Asset::from_url, nothing is
\* cached yet
DownloadInit ==
    /\ \E url \in Urls : assets = [k \in {url} |-> from_url(url, destination)]
    /\ fs = SourceTree(TRUE)
    /\ HandlerInit

\* find has not handled a link
FindVarsInit ==
    /\ current_chapter = NoPath
    /\ link_cursor = 0
    /\ sections_seen = 0
    /\ links_seen = 0
    /\ local_link = <<>>
    /\ local_chapter = NoPath
    /\ local_result = LocalErr("none")
    /\ handled = <<>>

\* find starts with an empty table over one of the source trees
FindInit ==
    /\ find_pc = "running"
    /\ assets = EmptyTable
    /\ \E outside_exists \in BOOLEAN : fs = SourceTree(outside_exists)
    /\ FindVarsInit

\* the part of a specification that does not take part in it
FootnoteIdle == FootnoteInit /\ is_enabled

DownloadIdle == DownloadInit /\ UrlWithoutExtension \in DOMAIN assets

FindIdle == find_pc = "done" /\ FindVarsInit

\* no book is being generated
GeneratorVarsInit ==
    /\ todo = <<>>
    /\ builder_content = <<>>
    /\ skipped = <<>>

GeneratorIdle ==
    /\ book = <<>>
    /\ gen_pc = "done"
    /\ phases = <<>>
    /\ GeneratorVarsInit

\* compute_path_prefix is not being called
PrefixIdle ==
    /\ prefix_pc = "returned"
    /\ prefix_depth = 0
    /\ prefix_path = <<>>
    /\ prefix_asset = FALSE
    /\ prefix_result = <<>>

\* no Html event was handled
HtmlIdle ==
    /\ filter_depth = 0
    /\ html_dom = <<>>
    /\ html_returned = <<>>
    /\ html_events = 0
    /\ filter_event = NoEvent
    /\ filter_returned = NoEvent

\* QuoteConverterFilter::new(false), no event handled
QuoteVarsInit ==
    /\ convert_text = TRUE
    /\ quote_event = [kind |-> "None", text |-> <<>>]
    /\ quote_returned = [kind |-> "None", text |-> <<>>]
    /\ after_code_block = FALSE
    /\ code_block_open = FALSE
    /\ received_in_code = FALSE

QuoteIdle == enabled = FALSE /\ QuoteVarsInit

\* normalize_path is not being called
NormalizeIdle ==
    /\ norm_pc = "again"
    /\ norm_path = <<>>
    /\ norm_result = NoPath
    /\ norm_again = NoPath

\* compute_asset_path_by_src_and_link is not being called
ClimbIdle ==
    /\ cap_pc = "returned"
    /\ cap_link0 = <<>>
    /\ cap_dir0 = NoPath
    /\ cap_link = <<>>
    /\ cap_root = NoPath
    /\ cap_calls = 0

\* mdbook_epub::generate is not being called
LibIdle ==
    /\ lib_pc = "idle"
    /\ destination_exists = TRUE
    /\ outfile = "absent"

UtilsIdle == NormalizeIdle /\ ClimbIdle /\ LibIdle

\* the parts of the program a specification leaves alone
FiltersIdle == PrefixIdle /\ HtmlIdle /\ QuoteIdle /\ UtilsIdle

Init == FootnoteInit /\ DownloadIdle /\ FindIdle /\ GeneratorIdle /\ FiltersIdle

Next ==
    \/ \E event \in ParserEvents : apply(event)
    \/ finish

Spec == Init /\ [][Next]_vars

InitDownload == DownloadInit /\ FootnoteIdle /\ FindIdle /\ GeneratorIdle /\ FiltersIdle

NextDownload ==
    \/ \E link_key \in Urls, response \in Responses, io \in IoOutcomes,
          written \in 0..(BodyLen - 1) :
           process_asset(link_key, response, io, written)
    \/ \E link \in Urls : find_remote(link)

SpecDownload == InitDownload /\ [][NextDownload]_vars

\* generate has populated the metadata and find_assets has called find
DiscoveryInit ==
    /\ book = <<>>
    /\ gen_pc = "find_assets"
    /\ phases = <<"populate_metadata">>
    /\ GeneratorVarsInit

InitLocal == FindInit /\ HandlerInit /\ FootnoteIdle /\ DiscoveryInit /\ FiltersIdle

NextLocal ==
    \/ \E section \in BookItems : find_section(section)
    \/ \E i \in 1..Len(LinkList) : find_link(i)
    \/ find_return
    \/ find_assets

SpecLocal == InitLocal /\ [][NextLocal]_vars

\* generate starts on one of the books; find is given by its result
GenerateInit ==
    /\ book \in Books
    /\ gen_pc = "populate_metadata"
    /\ phases = <<>>
    /\ GeneratorVarsInit
    /\ find_pc \in {"done", "failed"}
    /\ FindVarsInit

InitGenerate == GenerateInit /\ DownloadIdle /\ FootnoteIdle /\ FiltersIdle

NextGenerate ==
    \/ \E ok \in BOOLEAN : populate_metadata(ok)
    \/ find_assets
    \/ generate_chapters
    \/ \E added \in BOOLEAN : add_chapter(added)
    \/ generate_chapters_return
    \/ \E ok \in BOOLEAN : add_cover_image(ok)
    \/ \E ok \in BOOLEAN : embed_stylesheets(ok)
    \/ \E ok \in BOOLEAN : additional_assets(ok)
    \/ \E ok \in BOOLEAN : additional_resources(ok)
    \/ \E ok \in BOOLEAN : builder_generate(ok)

SpecGenerate == InitGenerate /\ [][NextGenerate]_vars

\* compute_path_prefix is called with a depth, a path and an asset or None
PrefixInit ==
    /\ prefix_pc = "called"
    /\ prefix_depth \in 0..MaxDepth
    /\ prefix_path \in StringsOf(PathSymbols, MaxPathLen)
    /\ prefix_asset \in BOOLEAN
    /\ prefix_result = <<>>

InitPrefix ==
    PrefixInit /\ HtmlIdle /\ QuoteIdle /\ UtilsIdle /\ FootnoteIdle /\ DownloadIdle /\ FindIdle /\ GeneratorIdle

NextPrefix == compute_path_prefix_return

SpecPrefix == InitPrefix /\ [][NextPrefix]_vars

\* the filter of a chapter at some depth, over the table find has built and
\* an empty cache
HtmlInit ==
    /\ filter_depth \in 0..MaxDepth
    /\ html_dom = <<>>
    /\ html_returned = <<>>
    /\ html_events = 0
    /\ filter_event = NoEvent
    /\ filter_returned = NoEvent
    /\ assets = HtmlTable
    /\ fs = SourceTree(TRUE)
    /\ HandlerInit

InitHtml ==
    HtmlInit /\ PrefixIdle /\ QuoteIdle /\ UtilsIdle /\ FootnoteIdle /\ FindIdle /\ GeneratorIdle

NextHtml ==
    \E responses \in [Urls -> HtmlResponses] :
        \/ \E event \in TagEvents : AssetRemoteLinkFilter_apply(event, <<>>, responses)
        \/ \E kind \in {"Html", "InlineHtml"}, dom \in Fragments :
              AssetRemoteLinkFilter_apply(FilterEvent(kind, <<>>), dom, responses)

SpecHtml == InitHtml /\ [][NextHtml]_vars

\* QuoteConverterFilter::new(enabled)
QuoteInit == enabled \in BOOLEAN /\ QuoteVarsInit

InitQuote ==
    QuoteInit /\ PrefixIdle /\ HtmlIdle /\ UtilsIdle /\ FootnoteIdle /\ DownloadIdle /\ FindIdle
        /\ GeneratorIdle

NextQuote == \E event \in QuoteEvents : QuoteConverterFilter_apply(event)

SpecQuote == InitQuote /\ [][NextQuote]_vars

\* normalize_path is called on any path of up to MaxPathLen symbols
NormalizeInit ==
    /\ norm_pc = "called"
    /\ norm_path \in StringsOf(PathSymbols, MaxPathLen)
    /\ norm_result = NoPath
    /\ norm_again = NoPath

InitNormalize ==
    NormalizeInit /\ ClimbIdle /\ PrefixIdle /\ HtmlIdle /\ QuoteIdle /\ FootnoteIdle /\ DownloadIdle
        /\ FindIdle /\ GeneratorIdle /\ LibIdle

NextNormalize == normalize_path_return \/ normalize_path_again

SpecNormalize == InitNormalize /\ [][NextNormalize]_vars

\* compute_asset_path_by_src_and_link is called on any link of up to
\* MaxClimbLen symbols and one of the chapter paths
ClimbInit ==
    /\ cap_pc = "called"
    /\ cap_link0 \in StringsOf(ClimbSymbols, MaxClimbLen)
    /\ cap_dir0 \in ChapterDirs
    /\ cap_link = cap_link0
    /\ cap_root = cap_dir0
    /\ cap_calls = 0

InitClimb ==
    ClimbInit /\ NormalizeIdle /\ PrefixIdle /\ HtmlIdle /\ QuoteIdle /\ FootnoteIdle
        /\ DownloadIdle /\ FindIdle /\ GeneratorIdle /\ LibIdle

NextClimb == compute_asset_path_recurse \/ compute_asset_path_return

SpecClimb == InitClimb /\ [][NextClimb]_vars

\* the calls go on while they can
SpecClimbFair == SpecClimb /\ WF_vars(NextClimb)

\* mdbook_epub::generate is called on one of the books, the destination
\* directory there or not, with or without the file of an earlier run
LibInit ==
    /\ lib_pc = "version_check"
    /\ destination_exists \in BOOLEAN
    /\ outfile \in (IF destination_exists THEN {"absent", "stale"} ELSE {"absent"})
    /\ book \in Books
    /\ gen_pc = "new"
    /\ phases = <<>>
    /\ GeneratorVarsInit
    /\ find_pc \in {"done", "failed"}
    /\ FindVarsInit

InitLib ==
    /\ LibInit /\ DownloadIdle /\ FootnoteIdle
    /\ PrefixIdle /\ HtmlIdle /\ QuoteIdle /\ NormalizeIdle /\ ClimbIdle

NextLib ==
    \/ \E provided_version \in ProvidedVersions : generate_version_check(provided_version)
    \/ \E ok \in BOOLEAN : generate_create_dir_all(ok)
    \/ \E ok \in BOOLEAN : generate_File_create(ok)
    \/ \E ok \in BOOLEAN : generate_Generator_new(ok)
    \/ generate_return
    \/ NextGenerate

SpecLib == InitLib /\ [][NextLib]_vars

-----------------------------------------------------------------------------
(* What the event stream says, computed from the input alone *)

\* the distinct referenced names, in order of first reference
RECURSIVE FirstReferenceOrder(_)
FirstReferenceOrder(evs) ==
    IF Len(evs) = 0 THEN <<>>
    ELSE LET prev == FirstReferenceOrder(SubSeq(evs, 1, Len(evs) - 1))
             e == evs[Len(evs)]
         IN  IF e.k = "FootnoteReference" /\ ~\E i \in 1..Len(prev) : prev[i] = e.name
             THEN Append(prev, e.name)
             ELSE prev

\* the number of references to name
UsesOf(evs, name) == Cardinality({i \in 1..Len(evs) : evs[i] = FootnoteReference(name)})

\* the number of definitions open after evs: starts seen whose end was not
RECURSIVE OpenDepth(_)
OpenDepth(evs) ==
    IF Len(evs) = 0 THEN 0
    ELSE LET d == OpenDepth(SubSeq(evs, 1, Len(evs) - 1))
             e == evs[Len(evs)]
         IN  IF e.k = "StartFootnoteDefinition" THEN d + 1
             ELSE IF e.k = "EndFootnoteDefinition" /\ d > 0 THEN d - 1
             ELSE d

PositionIn(order, name) == CHOOSE i \in 1..Len(order) : order[i] = name

Range(seq) == {seq[i] : i \in 1..Len(seq)}

RECURSIVE Flatten(_)
Flatten(seqs) ==
    IF Len(seqs) = 0 THEN <<>> ELSE seqs[1] \o Flatten(SubSeq(seqs, 2, Len(seqs)))

Occurrences(seq, x) == Cardinality({i \in 1..Len(seq) : seq[i] = x})

\* every event that reached the body or a definition buffer
AllStoredEvents == body \o Flatten(in_footnote) \o Flatten(footnotes)

IsAnchor(e) == e.k = "HtmlFootnoteReference"

\* the names of the definitions of the emitted footnote block, in order
EmittedDefinitionNames ==
    LET opens == SelectSeq(emitted, LAMBDA e : e.k = "HtmlDefinitionOpen")
    IN  [i \in 1..Len(opens) |-> opens[i].name]

-----------------------------------------------------------------------------
(* Claims *)

\* C1: in the enabled filter the k distinct referenced names carry the numbers
\* 1..k in order of first reference, every reference is rendered as an anchor
\* carrying the number of its name, and the u-th reference to a name carries
\* the use index u; the definitions play no part in it.
C1_FirstReferenceNumbering ==
    is_enabled =>
        LET order == FirstReferenceOrder(input) IN
        /\ DOMAIN footnote_numbers = Range(order)
        /\ \A i \in 1..Len(order) : footnote_numbers[order[i]].n = i
        /\ \A x \in Range(order) : footnote_numbers[x].nr = UsesOf(input, x)
        /\ \A e \in Range(AllStoredEvents) :
              IsAnchor(e) =>
                  /\ e.name \in Range(order)
                  /\ e.n = PositionIn(order, e.name)
                  /\ e.nr \in 1..UsesOf(input, e.name)
        /\ pc = "parsing" =>
              \A x \in Names : \A u \in 1..UsesOf(input, x) :
                  \E e \in Range(AllStoredEvents) : IsAnchor(e) /\ e.name = x /\ e.nr = u

\* C1 witness: b referenced twice before a, with a definition closed on the way
C1_Witness ==
    /\ is_enabled
    /\ DOMAIN footnote_numbers = {"a", "b"}
    /\ footnote_numbers["b"] = [n |-> 1, nr |-> 2]
    /\ footnote_numbers["a"] = [n |-> 2, nr |-> 1]
    /\ Len(footnotes) >= 1

\* C2 as stated: the emitted definitions carry strictly increasing
\* first-reference numbers.
C2_StrictlyIncreasing ==
    pc = "done" =>
        LET names == EmittedDefinitionNames
            order == FirstReferenceOrder(input)
        IN  \A i, j \in 1..Len(names) :
                i < j => PositionIn(order, names[i]) < PositionIn(order, names[j])

\* C2 amended: the emitted definitions carry non-decreasing first-reference
\* numbers, strictly increasing between definitions of different names (two
\* definitions of one name share its number); definitions [^b] then [^a] with
\* references a then b are emitted a before b.
C2_SortedByFirstReference ==
    pc = "done" =>
        LET names == EmittedDefinitionNames
            order == FirstReferenceOrder(input)
        IN  /\ \A i \in 1..Len(names) : names[i] \in Range(order)
            /\ \A i, j \in 1..Len(names) :
                  i < j =>
                      /\ PositionIn(order, names[i]) <= PositionIn(order, names[j])
                      /\ names[i] # names[j] =>
                            PositionIn(order, names[i]) < PositionIn(order, names[j])
            /\ (is_enabled /\ input = <<FootnoteReference("a"), FootnoteReference("b"),
                                        StartFootnoteDefinition("b"), EndFootnoteDefinition,
                                        StartFootnoteDefinition("a"), EndFootnoteDefinition>>)
                  => names = <<"a", "b">>

\* C2 witness: definitions given b then a, references a then b, block emitted
C2_Witness ==
    /\ pc = "done"
    /\ is_enabled
    /\ input = <<FootnoteReference("a"), FootnoteReference("b"),
                 StartFootnoteDefinition("b"), EndFootnoteDefinition,
                 StartFootnoteDefinition("a"), EndFootnoteDefinition>>
    /\ EmittedDefinitionNames = <<"a", "b">>

\* C3: at the end of the chapter the buffered definitions whose name was
\* referenced are all kept and the ones never referenced are all removed, and
\* the emitted block has one event per event of a kept definition and none
\* for a removed one.
C3_RetainDropsUnreferenced ==
    [][(pc = "parsing" /\ pc' = "done") =>
          LET referenced(f) == UsesOf(input, f[1].name) > 0
              kept == SelectSeq(footnotes, referenced)
          IN  /\ Len(footnotes') = Len(kept)
              /\ \A f \in Range(footnotes) \cup Range(footnotes') :
                    Occurrences(footnotes', f) = Occurrences(kept, f)
              /\ Len(emitted') = Len(Flatten(kept))
              /\ \A e \in Range(emitted') :
                    e.k \in {"HtmlDefinitionOpen", "HtmlBackrefs"} =>
                        UsesOf(input, e.name) > 0
      ]_vars

\* C3 witness: a defined and never referenced, b defined and referenced
C3_Witness ==
    /\ pc = "done"
    /\ is_enabled
    /\ UsesOf(input, "a") = 0
    /\ UsesOf(input, "b") > 0
    /\ StartFootnoteDefinition("a") \in Range(input)
    /\ StartFootnoteDefinition("b") \in Range(input)
    /\ Len(in_footnote) = 0
    /\ Len(footnotes) = 1
    /\ EmittedDefinitionNames = <<"b">>

\* the offset of the d-th definition's events in the emitted block
DefinitionOffset(d) == Len(Flatten(SubSeq(footnotes, 1, d - 1)))

\* C4: every emitted definition has its back-references written exactly once,
\* in place of the End(Paragraph) that is its second-to-last event and
\* otherwise in place of its End(FootnoteDefinition); they are one link per
\* reference to the name, fr-{name}-1 .. fr-{name}-{uses}, the first a bare
\* glyph and the u-th labelled u.
C4_BackrefsOncePerUse ==
    pc = "done" =>
        /\ Len(emitted) = Len(Flatten(footnotes))
        /\ \A d \in 1..Len(footnotes) :
              LET f == footnotes[d]
                  off == DefinitionOffset(d)
                  name == f[1].name
                  uses == UsesOf(input, name)
                  p == IF f[Len(f) - 1].k = "EndParagraph" THEN Len(f) - 1 ELSE Len(f)
                  b == emitted[off + p]
              IN  /\ f[Len(f)].k = "EndFootnoteDefinition"
                  /\ b.k = "HtmlBackrefs"
                  /\ b.name = name
                  /\ b.close = (IF p = Len(f) THEN "div" ELSE "p")
                  /\ Len(b.links) = uses
                  /\ \A u \in 1..uses :
                        b.links[u] = [name |-> name, usage |-> u,
                                      label |-> IF u = 1 THEN 0 ELSE u]
                  /\ \A i \in 1..Len(f) : i # p => emitted[off + i].k # "HtmlBackrefs"

\* C4 witness: a definition that ends in a paragraph and was referenced twice
C4_Witness ==
    /\ pc = "done"
    /\ \E i \in 1..Len(emitted) :
          /\ emitted[i].k = "HtmlBackrefs"
          /\ emitted[i].close = "p"
          /\ Len(emitted[i].links) = 2
          /\ i < Len(emitted)
          /\ emitted[i + 1] = HtmlDefinitionClose

\* C5: the filter has a definition open exactly when the stream has (enabled
\* filter); while one is open every apply returns None and nothing reaches the
\* body, a reference's anchor going to the innermost open buffer; while none
\* is open an event other than definition start/end/reference is returned
\* unchanged.
C5_OpenDefinitionSwallowsEvents ==
    /\ [](is_enabled => Len(in_footnote) = OpenDepth(input))
    /\ [][Len(input') = Len(input) + 1 =>
            LET e == input'[Len(input')]
                top == Len(in_footnote)
            IN  /\ top > 0 =>
                      /\ returned' = None
                      /\ body' = body
                      /\ e.k = "FootnoteReference" =>
                            /\ Len(in_footnote') = top
                            /\ \A i \in 1..(top - 1) : in_footnote'[i] = in_footnote[i]
                            /\ Len(in_footnote'[top]) = Len(in_footnote[top]) + 1
                            /\ IsAnchor(in_footnote'[top][Len(in_footnote'[top])])
                            /\ in_footnote'[top][Len(in_footnote'[top])].name = e.name
                /\ (top = 0 /\ e.k \notin {"StartFootnoteDefinition",
                                           "EndFootnoteDefinition",
                                           "FootnoteReference"}) =>
                      /\ returned' = e
                      /\ body' = Append(body, e)
       ]_vars

\* C5 witness: a reference arrived inside the inner of two open definitions
C5_Witness ==
    /\ Len(in_footnote) = 2
    /\ returned = None
    /\ input[Len(input)].k = "FootnoteReference"
    /\ IsAnchor(in_footnote[2][Len(in_footnote[2])])
    /\ Len(body) > 0

\* C6: when download succeeded for an Asset record and is called again on the
\* same record, the second call does not call retrieve and returns the same
\* mimetype, filename and location.
C6_SecondDownloadIsCacheHit ==
    [][(/\ download_calls' = download_calls + 1
        /\ download_result.ok
        /\ download_asset' = download_asset)
       => (retrieve_calls' = retrieve_calls /\ download_result' = download_result)
      ]_vars

\* C7: a failed download leaves no file at the asset's location_on_disk, and
\* every download that succeeds ends with the complete content at the
\* location it returns.
C7_FailedDownloadLeavesNoCacheFile ==
    /\ (download_calls > 0 /\ ~download_result.ok) =>
          ~is_file(fs, download_asset.location_on_disk)
    /\ download_result.ok =>
          /\ is_file(fs, download_result.location_on_disk)
          /\ fs[download_result.location_on_disk.comps].size = BodyLen

\* the number of "../" the link starts with
RECURSIVE LeadingParents(_)
LeadingParents(link) ==
    IF Len(link) >= 3 /\ SubSeq(link, 1, 3) = <<Dot, Dot, Sep>>
    THEN 1 + LeadingParents(SubSeq(link, 4, Len(link)))
    ELSE 0

\* the file name left of the link after its leading "../"
AfterParents(link) == SubSeq(link, 3 * LeadingParents(link) + 1, Len(link))

\* the last Asset::from_local call had a link that climbs from the chapter's
\* directory to three levels above the source directory and names a file there
ClimbsThreeLevels ==
    /\ local_link # <<>>
    /\ LeadingParents(local_link) = (Len(local_chapter.comps) - 1) + 3
    /\ AfterParents(local_link) # <<>>
    /\ \A i \in 1..Len(AfterParents(local_link)) : AfterParents(local_link)[i] # Sep

\* the path three levels above the source directory that the link names
ClimbTarget ==
    SubSeq(src_dir.comps, 1, Len(src_dir.comps) - 3) \o <<AfterParents(local_link)>>

\* C8 as stated: from_local fails with AssetOutsideSrcDir for every link that
\* climbs three levels above the source directory, whether or not anything
\* exists at the target.
C8_ClimbingLinkIsOutsideSrcDir ==
    ClimbsThreeLevels => (~local_result.ok /\ local_result.err = "AssetOutsideSrcDir")

\* C8, amended: from_local never succeeds for a link that climbs three levels
\* above the source directory; it fails with AssetOutsideSrcDir when the target
\* is a regular file, with AssetFileNotFound when nothing exists at the target
\* and with AssetFile when the target is a directory.
C8_ClimbingLinkFailsByTargetKind ==
    ClimbsThreeLevels =>
        /\ ~local_result.ok
        /\ node_kind(fs, ClimbTarget) = "file" => local_result.err = "AssetOutsideSrcDir"
        /\ node_kind(fs, ClimbTarget) = "absent" => local_result.err = "AssetFileNotFound"
        /\ node_kind(fs, ClimbTarget) = "dir" => local_result.err = "AssetFile"

\* C8 witness: a chapter of the sub directory links four levels up to the
\* existing file above the book, and from_local answers AssetOutsideSrcDir
C8_Witness ==
    /\ ClimbsThreeLevels
    /\ local_chapter = PathBuf(FALSE, <<Sub, ChapterMd>>)
    /\ node_kind(fs, ClimbTarget) = "file"
    /\ local_result.err = "AssetOutsideSrcDir"

\* the absolute path lies strictly beneath the directory
Beneath(path, dir) ==
    /\ path.abs
    /\ Len(path.comps) > Len(dir.comps)
    /\ \A i \in 1..Len(dir.comps) : path.comps[i] = dir.comps[i]

\* C9: every Local asset of the table lies at a regular file beneath the
\* source directory, and a link whose file lies outside the source directory
\* leaves the table as it was.
C9_LocalAssetsBeneathSrcDir ==
    /\ [](\A k \in DOMAIN assets :
            assets[k].source = "Local" =>
                /\ node_kind(fs, assets[k].location_on_disk.comps) = "file"
                /\ Beneath(assets[k].location_on_disk, src_dir))
    /\ [][(/\ links_seen' = links_seen + 1
           /\ LinkList[link_cursor'] = local_link'
           /\ \/ local_result'.err = "AssetOutsideSrcDir"
              \/ /\ local_result'.ok
                 /\ ~Beneath(local_result'.asset.location_on_disk, src_dir))
          => assets' = assets]_vars

\* C9 witness: the table holds the image of the source directory, and the
\* link through the symbolic link to the file above the book was resolved by
\* from_local and not stored
C9_Witness ==
    /\ ImagePng \in DOMAIN assets
    /\ assets[ImagePng].source = "Local"
    /\ local_link = LinkToOutside
    /\ local_result.ok
    /\ local_result.asset.location_on_disk = PathBuf(TRUE, <<Top, OutsidePng>>)
    /\ LinkToOutside \notin DOMAIN assets

\* the last Asset::from_local call had a link that is the name of a symbolic
\* link in the chapter's directory
NamesSymlink ==
    /\ local_link # <<>>
    /\ \A i \in 1..Len(local_link) : local_link[i] # Sep
    /\ node_kind(fs, src_dir.comps
                       \o SubSeq(local_chapter.comps, 1, Len(local_chapter.comps) - 1)
                       \o <<local_link>>) = "symlink"

\* C10: from_local fails with AssetFile for a link that names a symbolic link.
C10_SymlinkIsRejected ==
    NamesSymlink => (~local_result.ok /\ local_result.err = "AssetFile")

\* the chapters in which find has handled the link, in book order
RECURSIVE ChaptersWith(_, _)
ChaptersWith(link, pairs) ==
    IF pairs = <<>> THEN <<>>
    ELSE (IF pairs[1][2] = link THEN <<pairs[1][1]>> ELSE <<>>)
             \o ChaptersWith(link, Tail(pairs))

\* from_local gives an asset for the link in this chapter, at a file beneath
\* the source directory
ResolvesInside(link, chapter) ==
    LET result == from_local(fs, link, src_dir, chapter)
    IN  result.ok /\ Beneath(result.asset.location_on_disk, src_dir)

\* the table never loses an entry and never changes one it holds
EntriesAreKept ==
    \A k \in DOMAIN assets : k \in DOMAIN assets' /\ assets'[k] = assets[k]

\* C11 as stated: each key is its asset's original_link, an entry is never
\* replaced, and a Local entry is the asset resolved for the first chapter in
\* book order that holds the link.
C11_FirstChapterWins ==
    /\ [](\A k \in DOMAIN assets :
            /\ assets[k].original_link = k
            /\ assets[k].source = "Local" =>
                  assets[k] = from_local(fs, k, src_dir, ChaptersWith(k, handled)[1]).asset)
    /\ [][EntriesAreKept]_vars

\* C11, amended: each key is its asset's original_link, an entry is never
\* replaced, and a Local entry is the asset resolved for the first chapter in
\* book order in which the link resolves to a file beneath the source
\* directory.
C11_FirstResolvingChapterWins ==
    /\ [](\A k \in DOMAIN assets :
            /\ assets[k].original_link = k
            /\ assets[k].source = "Local" =>
                  LET chapters == ChaptersWith(k, handled)
                      first == CHOOSE i \in 1..Len(chapters) :
                                   /\ ResolvesInside(k, chapters[i])
                                   /\ \A j \in 1..(i - 1) : ~ResolvesInside(k, chapters[j])
                  IN  /\ \E i \in 1..Len(chapters) : ResolvesInside(k, chapters[i])
                      /\ assets[k] = from_local(fs, k, src_dir, chapters[first]).asset)
    /\ [][EntriesAreKept]_vars

\* C11 witness: the image link was handled in the chapter of the source
\* directory and then in the chapter of the sub directory, where it names
\* another file; the entry is the first chapter's
C11_Witness ==
    /\ ChaptersWith(ImagePng, handled)
           = <<PathBuf(FALSE, <<ChapterMd>>), PathBuf(FALSE, <<Sub, ChapterMd>>)>>
    /\ ImagePng \in DOMAIN assets
    /\ assets[ImagePng].location_on_disk = PathBuf(TRUE, Append(src_dir.comps, ImagePng))

\* the last from_local call of find failed with an error other than
\* AssetOutsideSrcDir
DiscoveryFailure ==
    local_link # <<>> /\ ~local_result.ok /\ local_result.err # "AssetOutsideSrcDir"

\* C12 as stated: after a failed resolution of a link, find goes on and
\* generate is not aborted.
C12_DiscoveryFailureIsNotFatal ==
    DiscoveryFailure => (find_pc # "failed" /\ gen_pc # "failed")

\* C12, amended: a failed resolution other than AssetOutsideSrcDir makes find
\* return the error at once, no further link or chapter is handled, and
\* find_assets makes generate return that error; AssetOutsideSrcDir alone is
\* skipped and find goes on.
C12_DiscoveryFailureAbortsGenerate ==
    /\ [](DiscoveryFailure <=> find_pc = "failed")
    /\ [](find_pc = "failed" => gen_pc \in {"find_assets", "failed"})
    /\ [][find_pc = "failed" =>
             /\ find_pc' = "failed"
             /\ gen_pc' = "failed"
             /\ UNCHANGED <<handled, assets, sections_seen, links_seen>>]_vars

\* C12 witness: generate failed on a missing file while sections and links
\* were still to come
C12_Witness ==
    /\ gen_pc = "failed"
    /\ local_result.err = "AssetFileNotFound"
    /\ sections_seen < MaxSections
    /\ links_seen < MaxLinks

\* generate_chapters has returned Ok
ChaptersAreGenerated ==
    gen_pc \in {"add_cover_image", "embed_stylesheets", "additional_assets",
                "additional_resources", "builder_generate", "done"}
        \/ (gen_pc = "failed" /\ "add_cover_image" \in Range(phases))

\* the names of the chapters given to the builder
AddedNames == {builder_content[i].name : i \in 1..Len(builder_content)}

\* the chapter has no content path or its template fails
RenderFails(ch) == ch.path = NoPath \/ ~ch.renders

\* C13: a chapter whose render fails is logged as skipped, adds no content and
\* does not fail generate; once generate_chapters returned, every top-level
\* chapter was added or skipped; generate fails in the chapter loop only when
\* the builder refuses a rendered chapter.
C13_RenderFailureSkipsChapter ==
    /\ [][(gen_pc = "add_chapter" /\ todo # <<>> /\ todo' # todo
              /\ RenderFails(Head(todo).ch))
            => /\ builder_content' = builder_content
               /\ skipped' = Append(skipped, Head(todo).ch.name)
               /\ gen_pc' = "add_chapter"]_vars
    /\ [][(gen_pc = "add_chapter" /\ gen_pc' = "failed")
            => ~RenderFails(Head(todo).ch)]_vars
    /\ [](ChaptersAreGenerated =>
            \A idx \in 1..Len(book) :
                book[idx].item = "Chapter" =>
                    book[idx].name \in AddedNames \cup Range(skipped))

\* C13 witness: generate is done, the first chapter was skipped and the
\* second one added
C13_Witness ==
    /\ gen_pc = "done"
    /\ skipped = <<<<1>>>>
    /\ <<2>> \in AddedNames

\* C14: once generate_chapters returned, every sub-chapter with a content path
\* of a skipped chapter was added.
C14_SubChaptersOfSkippedAreAdded ==
    ChaptersAreGenerated =>
        \A idx \in 1..Len(book) :
            (book[idx].item = "Chapter" /\ book[idx].name \in Range(skipped)) =>
                \A i \in 1..Len(book[idx].sub_items) :
                    ~RenderFails(book[idx].sub_items[i]) =>
                        book[idx].sub_items[i].name \in AddedNames

\* C15: once generate_chapters returned with a chapter added, exactly one
\* added content has the reference type Text, and it is a top-level chapter.
C15_OneTextReference ==
    (ChaptersAreGenerated /\ builder_content # <<>>) =>
        /\ Cardinality({i \in 1..Len(builder_content) :
                           builder_content[i].reftype = "Text"}) = 1
        /\ \A i \in 1..Len(builder_content) :
              builder_content[i].reftype = "Text" => Len(builder_content[i].name) = 1

\* C16: the phases run in the order metadata, discovery, chapters, cover,
\* stylesheet, assets, resources, finalize; a chapter is rendered only after
\* find returned the table; after an error nothing more runs, and generate is
\* done only after all the phases.
C16_PhasesInOrder ==
    /\ [](phases = SubSeq(<<"populate_metadata", "find_assets", "generate_chapters",
                            "add_cover_image", "embed_stylesheets", "additional_assets",
                            "additional_resources", "builder_generate">>,
                          1, Len(phases)))
    /\ []((gen_pc = "add_chapter" \/ builder_content # <<>> \/ skipped # <<>>) =>
             (find_pc = "done" /\ "find_assets" \in Range(phases)))
    /\ [](gen_pc = "done" => Len(phases) = 8)
    /\ [][gen_pc = "failed" => UNCHANGED <<gen_pc, phases, builder_content, skipped>>]_vars
    /\ [][gen_pc' = "failed" => (phases' = phases \/ Len(phases') = Len(phases) + 1)]_vars

\* C16 witness: generate is done and a chapter was added
C16_Witness ==
    /\ gen_pc = "done"
    /\ builder_content # <<>>
    /\ Len(phases) = 8

\* the path is written as its components joined by "/": no piece after a
\* separator is empty or "."
CleanPath(path) ==
    \A i \in 1..Len(path) :
        path[i] = Sep =>
            /\ i < Len(path)
            /\ path[i + 1] # Sep
            /\ ~(path[i + 1] = Dot /\ (i + 1 = Len(path) \/ path[i + 2] = Sep))

\* the path is a single file name
BareName(path) ==
    /\ path # <<>>
    /\ \A i \in 1..Len(path) : path[i] # Sep
    /\ path \notin {<<Dot>>, <<Dot, Dot>>}

\* n times "../"
RECURSIVE Climb(_)
Climb(n) == IF n = 0 THEN <<>> ELSE <<Dot, Dot, Sep>> \o Climb(n - 1)

\* the path without its leading separator
Rootless(path) ==
    IF path # <<>> /\ path[1] = Sep THEN Tail(path) ELSE path

\* C17 as stated: for every relative path written as its components,
\* compute_path_prefix returns the path with depth times "../" before it.
C17_PrefixAtEveryDepth ==
    (prefix_pc = "returned" /\ prefix_path # <<>> /\ prefix_path[1] # Sep
        /\ CleanPath(prefix_path))
        => prefix_result = Climb(prefix_depth) \o prefix_path

\* C17, amended: compute_path_prefix returns the path without its leading
\* separator, with depth times "../" before it - except that a single file
\* name given without an asset is returned as it is at every depth.
C17_PrefixUnlessBareNameWithoutAsset ==
    (prefix_pc = "returned" /\ CleanPath(prefix_path)) =>
        prefix_result =
            IF BareName(Rootless(prefix_path)) /\ ~prefix_asset
            THEN Rootless(prefix_path)
            ELSE Climb(prefix_depth) \o Rootless(prefix_path)

\* C17 witness: depth 2 and an asset, for "../" and a name that is not ASCII,
\* give three "../" before the name
C17_Witness ==
    /\ prefix_pc = "returned"
    /\ prefix_depth = 2
    /\ prefix_asset
    /\ prefix_path = <<Dot, Dot, Sep, "u0444u0430u0439u043b">>
    /\ prefix_result = <<Dot, Dot, Sep, Dot, Dot, Sep, Dot, Dot, Sep, "u0444u0430u0439u043b">>

\* the link to the container file of the asset the table holds for src, from
\* a chapter at the filter's depth
ContainerLink(src) == Climb(filter_depth) \o as_path(assets[src].filename)

\* the nodes with the src of every img element the table holds rewritten,
\* those inside other elements included
RECURSIVE Rewritten(_)
Rewritten(nodes) ==
    [i \in 1..Len(nodes) |->
        IF nodes[i].tag = "img" /\ nodes[i].src \in DOMAIN assets
        THEN Img(ContainerLink(nodes[i].src))
        ELSE IF nodes[i].tag = "div" THEN Div(Rewritten(nodes[i].children))
        ELSE nodes[i]]

\* C18 as stated: the fragment handle_html returns is the fragment it was
\* given with the src of every img element that is in the table - nested ones
\* included - rewritten to the prefixed container filename of its asset.
C18_EveryImgSrcIsRewritten ==
    (html_events > 0 /\ handler_pc = "ready")
        => html_returned = to_html(Rewritten(html_dom), 1)

\* out is text with each straight quote in its opening curly form when it is
\* the first character or follows white space, in its closing form
\* otherwise, and every other character as it was
InCurlyQuotes(out, text) ==
    /\ Len(out) = Len(text)
    /\ \A i \in 1..Len(text) :
          LET opens == i = 1 \/ text[i - 1] \in {" ", "\n"} IN
          out[i] = IF text[i] = "'" THEN (IF opens THEN "u2018" ELSE "u2019")
                   ELSE IF text[i] = "\"" THEN (IF opens THEN "u201C" ELSE "u201D")
                   ELSE text[i]

\* C19: with conversion enabled a Text event received inside a code block is
\* returned unaltered and a Text event received after a code block was closed
\* is converted; with conversion disabled every event is returned unaltered.
C19_CodeBlocksAreLeftAlone ==
    /\ (enabled /\ quote_event.kind = "Text" /\ received_in_code)
          => quote_returned = quote_event
    /\ (enabled /\ quote_event.kind = "Text" /\ ~received_in_code /\ after_code_block)
          => /\ quote_returned.kind = "Text"
             /\ InCurlyQuotes(quote_returned.text, quote_event.text)
    /\ ~enabled => quote_returned = quote_event

\* C19 witness: after a code block was closed, the text 'a' is returned in
\* curly quotes
C19_Witness ==
    /\ enabled
    /\ after_code_block
    /\ ~received_in_code
    /\ quote_event = QuoteEvent("Text", <<"'", "a", "'">>)
    /\ quote_returned = QuoteEvent("Text", <<"u2018", "a", "u2019">>)

\* C20: convert_quotes_to_curly gives a text of the same number of
\* characters, with each straight quote in its opening form when it is the
\* first character or the character before it is white space and in its
\* closing form otherwise, and every other character unchanged.
C20_QuotesByPrecedingCharacter ==
    (enabled /\ quote_event.kind = "Text" /\ ~received_in_code)
        => InCurlyQuotes(quote_returned.text, quote_event.text)

\* C20 witness: of two double quotes after a line break the first becomes
\* an opening and the second a closing quote
C20_Witness ==
    /\ enabled
    /\ ~received_in_code
    /\ quote_event = QuoteEvent("Text", <<"\n", "\"", "\"">>)
    /\ quote_returned = QuoteEvent("Text", <<"\n", "u201C", "u201D">>)

\* C21: normalizing the result of normalize_path gives that result again,
\* for every path of root, ".", ".." and normal components.
C21_NormalizeIsIdempotent ==
    norm_pc = "again" => norm_again = norm_result

\* C21 witness: "../file" is normalized to "file", and "file" to itself
C21_Witness ==
    /\ norm_pc = "again"
    /\ norm_path = <<Dot, Dot, Sep, "file">>
    /\ norm_result = PathBuf(FALSE, << <<"file">> >>)
    /\ norm_again = norm_result

\* C22 as stated: whatever the server answers, retrieve returns the content
\* or an error value to download - AssetFileNotFound or a transport error -
\* and never panics.
C22_RetrieveReturnsAnErrorValue ==
    /\ handler_pc # "panicked"
    /\ download_result.err \in {"", "none", "AssetFileNotFound", "HttpError", "AssetOpen"}

\* the number of upward markers - "../" or a separator - the link starts with
RECURSIVE LeadingMarkers(_)
LeadingMarkers(link) ==
    IF link # <<>> /\ link[1] = Sep THEN 1 + LeadingMarkers(Tail(link))
    ELSE IF Len(link) >= 3 /\ SubSeq(link, 1, 3) = <<Dot, Dot, Sep>>
    THEN 1 + LeadingMarkers(SubSeq(link, 4, Len(link)))
    ELSE 0

\* the link without the upward markers it starts with
RECURSIVE AfterMarkers(_)
AfterMarkers(link) ==
    IF link # <<>> /\ link[1] = Sep THEN AfterMarkers(Tail(link))
    ELSE IF Len(link) >= 3 /\ SubSeq(link, 1, 3) = <<Dot, Dot, Sep>>
    THEN AfterMarkers(SubSeq(link, 4, Len(link)))
    ELSE link

\* dir with its last n components removed
Ancestor(dir, n) == PathBuf(dir.abs, SubSeq(dir.comps, 1, Len(dir.comps) - n))

\* dir is a chapter directory: neither it nor a directory above it is a
\* file or an index.md that does not exist
IsChapterDirectory(dir) ==
    \A n \in 0..Len(dir.comps) :
        /\ ~is_file(fs, Ancestor(dir, n))
        /\ ~(ends_with(Ancestor(dir, n), IndexMd) /\ ~exists(fs, Ancestor(dir, n)))

\* C23: for a chapter directory with at least as many components as the link
\* has leading upward markers, compute_asset_path_by_src_and_link makes one
\* call per marker, strips exactly the markers from the link and returns the
\* directory with one component removed per marker; for a link of k "../"
\* before a relative rest, joining the result with the normalized link gives
\* the directory k levels up joined with the normalized rest.
C23_OneLevelPerMarker ==
    (/\ cap_pc = "returned"
     /\ IsChapterDirectory(cap_dir0)
     /\ LeadingMarkers(cap_link0) <= Len(cap_dir0.comps))
    => /\ cap_calls = LeadingMarkers(cap_link0)
       /\ cap_link = AfterMarkers(cap_link0)
       /\ cap_root = Ancestor(cap_dir0, LeadingMarkers(cap_link0))
       /\ LeadingParents(cap_link0) = LeadingMarkers(cap_link0)
             => join(cap_root, normalize_path(cap_link0))
                  = join(Ancestor(cap_dir0, LeadingParents(cap_link0)),
                         normalize_path(AfterMarkers(cap_link0)))

\* C23 witness: "media/book/src/chapter1/inner" and "../../a" give
\* "media/book/src", and the candidate path "media/book/src/a"
C23_Witness ==
    /\ cap_pc = "returned"
    /\ cap_dir0 = PathBuf(FALSE, << <<"media">>, <<"book">>, <<"src">>, <<"chapter1">>, <<"inner">> >>)
    /\ cap_link0 = <<Dot, Dot, Sep, Dot, Dot, Sep, "a">>
    /\ cap_root = PathBuf(FALSE, << <<"media">>, <<"book">>, <<"src">> >>)
    /\ join(cap_root, normalize_path(cap_link0))
          = PathBuf(FALSE, << <<"media">>, <<"book">>, <<"src">>, <<"a">> >>)

\* C30: a call of compute_asset_path_by_src_and_link returns; every
\* recursive call is given a strictly shorter link than the call that makes
\* it, and there are never more recursive calls than the link has symbols.
C30_ClimbTerminates ==
    /\ <>(cap_pc = "returned")
    /\ [][cap_calls' = cap_calls + 1 => Len(cap_link') < Len(cap_link)]_vars
    /\ [](cap_calls <= Len(cap_link0))

\* C30 witness: the link "/../a" made two recursive calls and the call returned
C30_Witness ==
    /\ cap_pc = "returned"
    /\ cap_link0 = <<Sep, Dot, Dot, Sep, "a">>
    /\ cap_link = <<"a">>
    /\ cap_calls = 2

\* the fragment holds an img element, nested or not, whose src is a url
RECURSIVE HasUrlImg(_)
HasUrlImg(nodes) ==
    \E i \in 1..Len(nodes) :
        \/ nodes[i].tag = "img" /\ nodes[i].src # NoSrc /\ nodes[i].src[1] = "https:"
        \/ HasUrlImg(nodes[i].children)

\* apply handled an Html or InlineHtml event in this step
HtmlStep ==
    html_events' = html_events + 1 /\ filter_event'.kind \in {"Html", "InlineHtml"}

\* C24 as stated: an event that is neither an image start nor an HTML
\* fragment holding an img element with a url src is returned by apply as it
\* was given - the same kind, the same text - and the table is left as it was.
C24_OtherEventsPassThrough ==
    [][(/\ html_events' = html_events + 1
        /\ filter_event'.kind # "Start(Image)"
        /\ HtmlStep => ~HasUrlImg(html_dom'))
       => (/\ handler_pc' = "ready"
           /\ filter_returned' = filter_event'
           /\ HtmlStep => html_returned' = to_html(html_dom', 1)
           /\ assets' = assets)
      ]_vars

\* C25 as stated: when the one download apply makes for an event fails, the
\* table is left as it was and the event is returned with the remote url it
\* came with, for an image start and for an HTML fragment alike.
C25_FailedDownloadKeepsTheUrl ==
    [][(/\ html_events' = html_events + 1
        /\ download_calls' = download_calls + 1
        /\ ~download_result'.ok
        /\ handler_pc' = "ready")
       => (/\ assets' = assets
           /\ filter_event'.kind = "Start(Image)" => filter_returned' = filter_event'
           /\ HtmlStep => html_returned' = to_html(html_dom', 1))
      ]_vars

\* the node with the src of any of its img elements that the table holds
\* either kept or rewritten to the link of that src's asset, and nothing else
\* changed
RECURSIVE SrcRewrites(_)
SrcRewrites(nodes) ==
    IF nodes = <<>> THEN {<<>>}
    ELSE LET node == nodes[1]
             heads == IF node.tag = "img" /\ node.src \in DOMAIN assets
                      THEN {node, Img(ContainerLink(node.src))}
                      ELSE IF node.tag = "div"
                      THEN {Div(c) : c \in SrcRewrites(node.children)}
                      ELSE {node}
         IN  {<<h>> \o t : h \in heads, t \in SrcRewrites(Tail(nodes))}

\* C28 as stated: the fragment handle_html returns differs from the fragment
\* it was given only in src values, each either as it was or rewritten to the
\* link of its own asset, whatever other img elements the fragment holds.
C28_OnlyTheSrcIsRewritten ==
    (filter_event.kind \in {"Html", "InlineHtml"} /\ handler_pc = "ready")
        => \E r \in SrcRewrites(html_dom) : html_returned = to_html(r, 1)

\* C26 as stated: every back-reference link #fr-{name}-{u} of a definition
\* of the emitted footnote block targets an anchor fr-{name}-{u} that is in
\* the output, in the chapter body or inside an emitted definition, also
\* when the reference was made inside a definition that is never referenced.
C26_BackrefsTargetAnAnchorOfTheOutput ==
    pc = "done" =>
        \A i \in 1..Len(emitted) :
            emitted[i].k = "HtmlBackrefs" =>
                \A u \in 1..Len(emitted[i].links) :
                    \E e \in Range(body \o emitted) :
                        /\ IsAnchor(e)
                        /\ e.name = emitted[i].links[u].name
                        /\ e.nr = emitted[i].links[u].usage

\* C29 as stated: when generate has returned an error, whichever statement
\* failed, the destination directory holds no output file this call made.
C29_NoOutputFileAfterAnError ==
    lib_pc = "Err" => outfile \in {"absent", "stale"}

\* the container path a link in a chapter resolves to: the link is taken
\* relative to the directory of the chapter's file, which is added to the
\* container under the chapter's path
ResolvesTo(chapter, link) == normalize_from(parent(chapter), components(link), 1)

\* C27 as stated: after discovery every local image a chapter references is
\* among the resources added to the container, under the path the link the
\* chapter is rendered with resolves to, also when chapters in different
\* directories use the same link text for different files.
C27_LocalImagesAreEmbeddedWhereTheLinkPoints ==
    find_pc = "done" =>
        \A i \in 1..Len(handled) :
            LET chapter == handled[i][1]
                link == handled[i][2]
            IN  (~url_parse_is_ok(link) /\ ResolvesInside(link, chapter)) =>
                    \E r \in added_resources(assets) :
                        /\ r.path.comps =
                               ResolvesTo(chapter, local_dest_url(assets, link)).comps
                        /\ r.content =
                               from_local(fs, link, src_dir, chapter).asset.location_on_disk

====
